---- MODULE Spec2Model ----
(***************************************************************************)
(* Execution Engine Client and Local Payload Builder of beacon-kit.        *)
(*                                                                         *)
(* Goroutines (Procs) call the four PayloadBuilder operations and the four *)
(* EngineClient operations.  A call suspends at its transport request and, *)
(* for RequestPayloadSync, at its settle select; every other statement of  *)
(* a handler runs inside the step that reaches the suspension point.       *)
(***************************************************************************)
EXTENDS Integers, Sequences, FiniteSets, TLC

\* ------------------------------------------------------------------ bounds
\* Number of calls the goroutines start in one behaviour.
MaxCalls == 3
\* Number of cache evictions in one behaviour.
MaxEvict == 1
\* Number of one-bits in the sparse 64-bit values the power-of-two functions
\* are called on.
MaxOnes == 2

\* ------------------------------------------------------------ value sets
Procs == {"g1", "g2"}
Slots == {1, 2}
Roots == {"ra"}
Keys == Slots \X Roots
PayloadIDs == {"p1", "p2"}
NoID == "noid"
Hashes == {"h1"}
NoHash == "nohash"
Statuses == {"VALID", "INVALID", "SYNCING", "ACCEPTED", "BOGUS"}
Capabilities == {"capA", "capB"}

\* version.Deneb and version.Electra, the fork versions the dispatch names.
Deneb == 4
Electra == 5
\* Fork versions a caller may pass to the EngineClient.
Versions == {3, 4, 5, 6}
\* Slots at which the chain spec activates Electra; the others run Deneb.
ElectraSlots == {2}

\* ----------------------------------------------------------------- errors
Nil == "nil"
ErrEngineAPITimeout == "ErrEngineAPITimeout"
ContextCanceled == "context.Canceled"
JSONRPCError == "jsonrpc.Error"
ConnError == "connection error"
ErrInvalidPayloadType == "ErrInvalidPayloadType"
ErrInvalidPayloadAttributes == "ErrInvalidPayloadAttributes"
ErrInvalidGetPayloadVersion == "ErrInvalidGetPayloadVersion"
ErrTODOElectra == "TODO: implement Electra"
ErrNilPayloadStatus == "ErrNilPayloadStatus"
ErrNilForkchoiceResponse == "ErrNilForkchoiceResponse"
ErrNilExecutionPayloadEnvelope == "ErrNilExecutionPayloadEnvelope"
ErrNilBlobsBundle == "ErrNilBlobsBundle"
ErrAcceptedPayloadStatus == "ErrAcceptedPayloadStatus"
ErrSyncingPayloadStatus == "ErrSyncingPayloadStatus"
ErrInvalidPayloadStatus == "ErrInvalidPayloadStatus"
ErrUnknownPayloadStatus == "ErrUnknownPayloadStatus"
ErrPayloadBuilderDisabled == "ErrPayloadBuilderDisabled"
ErrNilPayloadID == "ErrNilPayloadID"
ErrPayloadIDNotFound == "ErrPayloadIDNotFound"
ErrNilPayloadEnvelope == "ErrNilPayloadEnvelope"
ErrPayloadAttributes == "error when getting payload attributes"
ErrRPCFailure == "structured RPC error"
ErrUnexpected == "unexpected error"
ErrLatestHeader == "GetLatestExecutionPayloadHeader error"

BuilderOps == {"RequestPayloadAsync", "RequestPayloadSync", "RetrievePayload",
               "SendForceHeadFCU"}
EngineOps == {"NewPayload", "ForkchoiceUpdated", "GetPayload",
              "ExchangeCapabilities"}

\* --------------------------------------------------------------- variables
VARIABLES
    enabled,       \* pb.cfg.Enabled
    cache,         \* pb.pc: key -> PayloadID, NoID when the key has no entry
    pc,            \* where each goroutine is suspended
    fr,            \* the frame of each goroutine's running call
    cancelled,     \* whether the ctx of the running call is done
    ret,           \* the return the last step made, NoRet when it made none
    ncalls,        \* calls started so far
    nevict,        \* evictions so far
    metric,        \* the counter the last step incremented in the metrics sink
    capabilities,  \* s.capabilities
    statusErr,     \* s.statusErr
    issued,        \* per key, the PayloadIDs inserted since its last eviction
    granted,       \* per key, the PayloadIDs the peer has answered its builds with
    input,         \* the arguments of a call of a pure function
    output,        \* what that call returned
    now,           \* the clock, in ticks
    dctx           \* the derived context of the engine call under the clock

vars == <<enabled, cache, pc, fr, cancelled, ret, ncalls, nevict, metric,
          capabilities, statusErr, issued, granted, input, output,
          now, dctx>>

\* No call of a pure function is under way.
NoInput == "no input"
NoOutput == <<>>

\* No engine call is under the clock.
NoCtx == [op |-> "none", start |-> 0, deadline |-> 0, running |-> FALSE,
          later |-> FALSE]
\* The call returned v.
Returned(v) == <<v>>

\* ------------------------------------------------------- envelopes, frames
\* An envelope: whether it is nil, whether it has a blobs bundle, whether the
\* fee recipient of its payload is pb.cfg.SuggestedFeeRecipient, and the
\* PayloadID it was built under.
NoEnv == [nil |-> TRUE, blobs |-> FALSE, fee |-> FALSE, pid |-> NoID]

IdleFrame == [op |-> "none", slot |-> 0, root |-> "none", ver |-> 0,
              attrs |-> FALSE, pid |-> NoID, entry |-> NoID, hit |-> NoID,
              sent |-> <<>>, settle |-> "none", result |-> {}]

NoRet == [proc |-> "none", op |-> "none", slot |-> 0, root |-> "none", ver |-> 0,
          id |-> NoID, env |-> NoEnv, lvh |-> NoHash, caps |-> {},
          err |-> Nil, entry |-> NoID, hit |-> NoID, prior |-> {},
          sent |-> <<>>, settle |-> "none", cause |-> "none",
          status |-> "none", rlvh |-> NoHash, tinc |-> 0, renv |-> NoEnv]

\* A forkchoice state that names the latest header's block hash three times.
ForkchoiceState_HeadOnly(f) ==
    CASE f.op = "SendForceHeadFCU" ->
            [head |-> "lph.BlockHash", safe |-> "lph.BlockHash",
             finalized |-> "lph.BlockHash"]
      [] f.op \in {"RequestPayloadAsync", "RequestPayloadSync"} ->
            [head |-> "headEth1BlockHash", safe |-> "finalEth1BlockHash",
             finalized |-> "finalEth1BlockHash"]
      [] OTHER -> [head |-> "state.Head", safe |-> "state.Safe",
                   finalized |-> "state.Finalized"]

\* The ForkchoiceStateV1 each operation puts in its forkchoice update: the
\* hashes by where they come from. lph is the latest execution payload
\* header of the beacon state; its block hash and parent hash differ.
ForkchoiceState(f) ==
    CASE f.op = "SendForceHeadFCU" ->
            [head |-> "lph.BlockHash", safe |-> "lph.ParentHash",
             finalized |-> "lph.ParentHash"]
      [] f.op \in {"RequestPayloadAsync", "RequestPayloadSync"} ->
            [head |-> "headEth1BlockHash", safe |-> "finalEth1BlockHash",
             finalized |-> "finalEth1BlockHash"]
      [] OTHER -> [head |-> "state.Head", safe |-> "state.Safe",
                   finalized |-> "state.Finalized"]

\* A transport request as the peer sees it: the wire method, the context it
\* was made under, and what it carries.
Request(m, dl, f) == [m |-> m, dl |-> dl, slot |-> f.slot, root |-> f.root,
                      attrs |-> f.attrs, pid |-> f.pid,
                      state |-> ForkchoiceState(f)]

\* The outcome of one transport call.
Outcome0 == [kind |-> "resp", nil |-> FALSE, status |-> "VALID",
             lvh |-> NoHash, pid |-> NoID, blobs |-> FALSE, fee |-> FALSE,
             caps |-> {}]
NoOutcome == [Outcome0 EXCEPT !.kind = "none", !.nil = TRUE]
TimeoutOutcome == [Outcome0 EXCEPT !.kind = "timeout", !.nil = TRUE]
CancelOutcome == [Outcome0 EXCEPT !.kind = "cancel", !.nil = TRUE]
ErrorOutcomes == {[Outcome0 EXCEPT !.kind = k, !.nil = TRUE] :
                    k \in {"rpcerr", "neterr"}}

\* What the peer may answer to each wire method.
StatusResponses == {[Outcome0 EXCEPT !.nil = TRUE]} \cup
    {[Outcome0 EXCEPT !.status = s, !.lvh = h] :
        s \in Statuses, h \in Hashes \cup {NoHash}}
ForkchoiceResponses == {[Outcome0 EXCEPT !.nil = TRUE]} \cup
    {[Outcome0 EXCEPT !.status = s, !.lvh = h, !.pid = i] :
        s \in Statuses, h \in Hashes \cup {NoHash}, i \in PayloadIDs \cup {NoID}}
EnvelopeResponses(pid) == {[Outcome0 EXCEPT !.nil = TRUE]} \cup
    {[Outcome0 EXCEPT !.pid = pid, !.blobs = b, !.fee = f] :
        b \in BOOLEAN, f \in BOOLEAN}
CapabilityResponses == {[Outcome0 EXCEPT !.caps = c] : c \in SUBSET Capabilities}

PeerAnswers(req) ==
    CASE req.m = "engine_newPayload" -> StatusResponses
      [] req.m = "engine_forkchoiceUpdated" -> ForkchoiceResponses
      [] req.m = "engine_getPayload" -> EnvelopeResponses(req.pid)
      [] OTHER -> CapabilityResponses

\* ------------------------------------------------------------ collaborators
\* chainSpec.ActiveForkVersionForSlot
ActiveForkVersionForSlot(slot) == IF slot \in ElectraSlots THEN Electra ELSE Deneb

\* The error a transport call returns when it does not return a response: the
\* cause of the context it ran under, or the transport's own error.
TransportError(o) ==
    CASE o.kind = "timeout" -> ErrEngineAPITimeout
      [] o.kind = "cancel" -> ContextCanceled
      [] o.kind = "rpcerr" -> JSONRPCError
      [] o.kind = "neterr" -> ConnError
      [] OTHER -> Nil

\* errors.Is(err, engineerrors.ErrEngineAPITimeout)
IsEngineAPITimeout(err) == err = ErrEngineAPITimeout

\* s.handleRPCError: each class of error is surfaced as its own typed error;
\* a ctx or timeout error stays recognisable through the wrapping.
handleRPCError(err) ==
    CASE err = Nil -> Nil
      [] err = JSONRPCError -> ErrRPCFailure
      [] err = ConnError -> ErrUnexpected
      [] OTHER -> err

\* processPayloadStatusResult, the status classifier.
processPayloadStatusResult(status, lvh) ==
    CASE status = "VALID" -> [lvh |-> lvh, err |-> Nil]
      [] status = "ACCEPTED" -> [lvh |-> lvh, err |-> ErrAcceptedPayloadStatus]
      [] status = "SYNCING" -> [lvh |-> lvh, err |-> ErrSyncingPayloadStatus]
      [] status = "INVALID" -> [lvh |-> NoHash, err |-> ErrInvalidPayloadStatus]
      [] OTHER -> [lvh |-> NoHash, err |-> ErrUnknownPayloadStatus]

\* pb.pc.Get and pb.pc.Set
CacheGet(c, key) == c[key]
CacheSet(c, key, id) == [c EXCEPT ![key] = id]

\* ------------------------------------------------------------ engine client
\* The outcome of a handler step: where the goroutine is next, its frame, what
\* it returned (when next is "idle", with the transport outcome o that ended
\* the call), the shared state it leaves, and the timeout counter it
\* incremented ("none": no counter).
Step(next, f, r, c, tm) ==
    [next |-> next, f |-> f, r |-> r, cache |-> c, tm |-> tm,
     caps |-> capabilities, serr |-> statusErr, got |-> NoID]

\* The handler returns to its caller.
Done(f, v, c, o, tm) ==
    Step("idle", IdleFrame,
         [proc |-> "self", op |-> f.op, slot |-> f.slot, root |-> f.root, ver |-> f.ver,
          id |-> v.id, env |-> v.env, lvh |-> v.lvh, caps |-> v.caps,
          err |-> v.err, entry |-> f.entry, hit |-> f.hit,
          prior |-> IF <<f.slot, f.root>> \in Keys THEN issued[<<f.slot, f.root>>] ELSE {},
          sent |-> f.sent, settle |-> f.settle, cause |-> o.kind,
          status |-> IF o.kind = "resp" /\ ~o.nil THEN o.status ELSE "none",
          rlvh |-> o.lvh, tinc |-> IF tm = "none" THEN 0 ELSE 1,
          renv |-> IF f.sent # <<>> /\ f.sent[Len(f.sent)].m = "engine_getPayload"
                      /\ o.kind = "resp" /\ ~o.nil
                   THEN [nil |-> FALSE, blobs |-> o.blobs, fee |-> o.fee,
                         pid |-> o.pid]
                   ELSE NoEnv],
         c, tm)

\* Return values: every result absent except the ones named.
Val0 == [id |-> NoID, env |-> NoEnv, lvh |-> NoHash, caps |-> {}, err |-> Nil]
ValErr(e) == [Val0 EXCEPT !.err = e]

\* The handler suspends on a transport request made under context dl.
Send(f, m, dl) ==
    Step("rpc", [f EXCEPT !.sent = Append(@, Request(m, dl, f))], NoRet,
         cache, "none")

\* The context the three version-dispatched operations hand to the transport:
\* context.WithTimeoutCause(ctx, s.cfg.RPCTimeout, ErrEngineAPITimeout).
NewPayloadContext == "dctx"
\* ForkchoiceUpdated handing the caller's ctx to the transport.
ForkchoiceUpdatedContext_Caller == "ctx"
ForkchoiceUpdatedContext == "dctx"
GetPayloadContext == "dctx"
\* ExchangeCapabilities hands the caller's ctx to s.Eth1Client.
ExchangeCapabilitiesContext == "ctx"

\* callNewPayloadRPC: Nil when the request goes to the transport, else the
\* error returned without a request.
callNewPayloadRPC(ver) ==
    CASE ver = Deneb -> Nil
      [] ver = Electra -> ErrTODOElectra
      [] OTHER -> ErrInvalidPayloadType

\* callUpdatedForkchoiceRPC
callUpdatedForkchoiceRPC(ver) ==
    CASE ver = Deneb -> Nil
      [] ver = Electra -> ErrTODOElectra
      [] OTHER -> ErrInvalidPayloadAttributes

\* The version switch of GetPayload.
GetPayloadDispatch(ver) ==
    CASE ver = Deneb -> Nil
      [] ver = Electra -> ErrTODOElectra
      [] OTHER -> ErrInvalidGetPayloadVersion

\* NewPayload that counts every failed call as a timeout.
NewPayloadReturn_CountsEveryError(err, o) ==
    IF err # Nil
    THEN [lvh |-> NoHash, err |-> err, tm |-> "newPayload"]
    ELSE IF o.nil
    THEN [lvh |-> NoHash, err |-> ErrNilPayloadStatus, tm |-> "none"]
    ELSE LET r == processPayloadStatusResult(o.status, o.lvh)
         IN [lvh |-> r.lvh, err |-> r.err, tm |-> "none"]

\* NewPayload that returns the classifier's error and drops its hash.
NewPayloadReturn_DropsHash(err, o) ==
    IF err # Nil
    THEN [lvh |-> NoHash, err |-> err,
          tm |-> IF IsEngineAPITimeout(err) THEN "newPayload" ELSE "none"]
    ELSE IF o.nil
    THEN [lvh |-> NoHash, err |-> ErrNilPayloadStatus, tm |-> "none"]
    ELSE LET r == processPayloadStatusResult(o.status, o.lvh)
         IN [lvh |-> NoHash, err |-> r.err, tm |-> "none"]

\* NewPayload that takes every status it does not know for VALID.
NewPayloadReturn_UnknownIsValid(err, o) ==
    IF err # Nil
    THEN [lvh |-> NoHash, err |-> err,
          tm |-> IF IsEngineAPITimeout(err) THEN "newPayload" ELSE "none"]
    ELSE IF o.nil
    THEN [lvh |-> NoHash, err |-> ErrNilPayloadStatus, tm |-> "none"]
    ELSE LET r == processPayloadStatusResult(
                      IF o.status \in {"INVALID", "SYNCING", "ACCEPTED"}
                      THEN o.status ELSE "VALID", o.lvh)
         IN [lvh |-> r.lvh, err |-> r.err, tm |-> "none"]

\* NewPayload that returns no hash next to an error.
NewPayloadReturn_NoHashOnError(err, o) ==
    IF err # Nil
    THEN [lvh |-> NoHash, err |-> err,
          tm |-> IF IsEngineAPITimeout(err) THEN "newPayload" ELSE "none"]
    ELSE IF o.nil
    THEN [lvh |-> NoHash, err |-> ErrNilPayloadStatus, tm |-> "none"]
    ELSE LET r == processPayloadStatusResult(o.status, o.lvh)
         IN [lvh |-> IF r.err = Nil THEN r.lvh ELSE NoHash, err |-> r.err,
             tm |-> "none"]

\* NewPayload after callNewPayloadRPC returned (o, err).
NewPayloadReturn(err, o) ==
    IF err # Nil
    THEN [lvh |-> NoHash, err |-> err,
          tm |-> IF IsEngineAPITimeout(err) THEN "newPayload" ELSE "none"]
    ELSE IF o.nil
    THEN [lvh |-> NoHash, err |-> ErrNilPayloadStatus, tm |-> "none"]
    ELSE LET r == processPayloadStatusResult(o.status, o.lvh)
         IN [lvh |-> r.lvh, err |-> r.err, tm |-> "none"]

\* ForkchoiceUpdated that lets the soft statuses pass as success.
ForkchoiceUpdatedReturn_SwallowsSoft(err, o) ==
    IF err # Nil
    THEN [pid |-> NoID, lvh |-> NoHash, err |-> handleRPCError(err),
          tm |-> IF IsEngineAPITimeout(err) THEN "forkchoiceUpdate" ELSE "none"]
    ELSE IF o.nil
    THEN [pid |-> NoID, lvh |-> NoHash, err |-> ErrNilForkchoiceResponse,
          tm |-> "none"]
    ELSE LET r == processPayloadStatusResult(o.status, o.lvh)
         IN IF r.err \notin {Nil, ErrAcceptedPayloadStatus, ErrSyncingPayloadStatus}
            THEN [pid |-> NoID, lvh |-> r.lvh, err |-> r.err, tm |-> "none"]
            ELSE [pid |-> o.pid, lvh |-> r.lvh, err |-> Nil, tm |-> "none"]

\* ForkchoiceUpdated after callUpdatedForkchoiceRPC returned (o, err).
ForkchoiceUpdatedReturn(err, o) ==
    IF err # Nil
    THEN [pid |-> NoID, lvh |-> NoHash, err |-> handleRPCError(err),
          tm |-> IF IsEngineAPITimeout(err) THEN "forkchoiceUpdate" ELSE "none"]
    ELSE IF o.nil
    THEN [pid |-> NoID, lvh |-> NoHash, err |-> ErrNilForkchoiceResponse,
          tm |-> "none"]
    ELSE LET r == processPayloadStatusResult(o.status, o.lvh)
         IN IF r.err # Nil
            THEN [pid |-> NoID, lvh |-> r.lvh, err |-> r.err, tm |-> "none"]
            ELSE [pid |-> o.pid, lvh |-> r.lvh, err |-> Nil, tm |-> "none"]

\* The envelope a transport outcome carries.
Envelope(o) ==
    IF o.nil THEN NoEnv
    ELSE [nil |-> FALSE, blobs |-> o.blobs, fee |-> o.fee, pid |-> o.pid]

\* GetPayload that hands on a nil result of the transport without an error.
GetPayloadReturn_NilIsOK(ver, err, o) ==
    IF err # Nil
    THEN [env |-> Envelope(o), err |-> handleRPCError(err),
          tm |-> IF IsEngineAPITimeout(err) THEN "getPayload" ELSE "none"]
    ELSE IF o.nil
    THEN [env |-> NoEnv, err |-> Nil, tm |-> "none"]
    ELSE IF ~o.blobs /\ ver >= Deneb
    THEN [env |-> Envelope(o), err |-> ErrNilBlobsBundle, tm |-> "none"]
    ELSE [env |-> Envelope(o), err |-> Nil, tm |-> "none"]

\* GetPayload that returns a timeout without counting it.
GetPayloadReturn_NoCount(ver, err, o) ==
    IF err # Nil
    THEN [env |-> Envelope(o), err |-> handleRPCError(err), tm |-> "none"]
    ELSE IF o.nil
    THEN [env |-> NoEnv, err |-> ErrNilExecutionPayloadEnvelope, tm |-> "none"]
    ELSE IF ~o.blobs /\ ver >= Deneb
    THEN [env |-> Envelope(o), err |-> ErrNilBlobsBundle, tm |-> "none"]
    ELSE [env |-> Envelope(o), err |-> Nil, tm |-> "none"]

\* GetPayload that does not look at the blobs bundle.
GetPayloadReturn_NoBlobCheck(ver, err, o) ==
    IF err # Nil
    THEN [env |-> Envelope(o), err |-> handleRPCError(err),
          tm |-> IF IsEngineAPITimeout(err) THEN "getPayload" ELSE "none"]
    ELSE IF o.nil
    THEN [env |-> NoEnv, err |-> ErrNilExecutionPayloadEnvelope, tm |-> "none"]
    ELSE [env |-> Envelope(o), err |-> Nil, tm |-> "none"]

\* GetPayload after fn(dctx, payloadID) returned (o, err).
GetPayloadReturn(ver, err, o) ==
    IF err # Nil
    THEN [env |-> Envelope(o), err |-> handleRPCError(err),
          tm |-> IF IsEngineAPITimeout(err) THEN "getPayload" ELSE "none"]
    ELSE IF o.nil
    THEN [env |-> NoEnv, err |-> ErrNilExecutionPayloadEnvelope, tm |-> "none"]
    ELSE IF ~o.blobs /\ ver >= Deneb
    THEN [env |-> Envelope(o), err |-> ErrNilBlobsBundle, tm |-> "none"]
    ELSE [env |-> Envelope(o), err |-> Nil, tm |-> "none"]

\* ExchangeCapabilities that returns the error without recording it.
ExchangeCapabilitiesReturn_DropsError(f, err, o) ==
    IF err # Nil
    THEN Done(f, ValErr(handleRPCError(err)), cache, o, "none")
    ELSE Step("store", [f EXCEPT !.result = o.caps], NoRet, cache, "none")

\* ExchangeCapabilities after s.Eth1Client.ExchangeCapabilities returned. On
\* an error it takes s.statusErrMu, writes s.statusErr and returns, all in
\* one step under the lock; on success it goes on, without the lock, to the
\* statements that write s.capabilities and s.statusErr.
ExchangeCapabilitiesReturn(f, err, o) ==
    IF err # Nil
    THEN [Done(f, ValErr(handleRPCError(err)), cache, o, "none")
            EXCEPT !.serr = handleRPCError(err)]
    ELSE Step("store", [f EXCEPT !.result = o.caps], NoRet, cache, "none")

\* The success path that fails when a capability of this node is missing
\* from the peer's list.
StoreCapabilitiesReturn_GapIsError(f) ==
    IF Capabilities \subseteq capabilities \cup f.result
    THEN [Done(f, [Val0 EXCEPT !.caps = f.result], cache,
               [Outcome0 EXCEPT !.caps = f.result], "none")
            EXCEPT !.caps = capabilities \cup f.result, !.serr = Nil]
    ELSE [Done(f, ValErr(ErrUnexpected), cache,
               [Outcome0 EXCEPT !.caps = f.result], "none")
            EXCEPT !.caps = capabilities \cup f.result]

\* The success path that replaces the capability set by the peer's list.
StoreCapabilitiesReturn_Replaces(f) ==
    [Done(f, [Val0 EXCEPT !.caps = f.result], cache,
          [Outcome0 EXCEPT !.caps = f.result], "none")
       EXCEPT !.caps = f.result, !.serr = Nil]

\* The success path of ExchangeCapabilities: every capability of the result
\* is added to the map s.capabilities, s.statusErr is set to nil and the
\* result is returned.
StoreCapabilitiesReturn(f) ==
    [Done(f, [Val0 EXCEPT !.caps = f.result], cache,
          [Outcome0 EXCEPT !.caps = f.result], "none")
       EXCEPT !.caps = capabilities \cup f.result, !.serr = Nil]

\* ----------------------------------------------------------- payload builder
\* RequestPayloadAsync that returns a nil PayloadID on a cache hit.
AsyncLookup_NilOnHit(key, attrsOK) ==
    IF ~enabled
    THEN [done |-> TRUE, id |-> NoID, err |-> ErrPayloadBuilderDisabled,
          hit |-> NoID]
    ELSE IF CacheGet(cache, key) # NoID
    THEN [done |-> TRUE, id |-> NoID, err |-> Nil, hit |-> CacheGet(cache, key)]
    ELSE IF ~attrsOK
    THEN [done |-> TRUE, id |-> NoID, err |-> ErrPayloadAttributes, hit |-> NoID]
    ELSE [done |-> FALSE, id |-> NoID, err |-> Nil, hit |-> NoID]

\* RequestPayloadAsync that logs the cache hit and builds all the same.
AsyncLookup_NoDedup(key, attrsOK) ==
    IF ~enabled
    THEN [done |-> TRUE, id |-> NoID, err |-> ErrPayloadBuilderDisabled,
          hit |-> NoID]
    ELSE IF ~attrsOK
    THEN [done |-> TRUE, id |-> NoID, err |-> ErrPayloadAttributes, hit |-> NoID]
    ELSE [done |-> FALSE, id |-> NoID, err |-> Nil, hit |-> CacheGet(cache, key)]

\* RequestPayloadAsync without the pb.Enabled() test.
AsyncLookup_NoDisabledCheck(key, attrsOK) ==
    IF CacheGet(cache, key) # NoID
    THEN [done |-> TRUE, id |-> CacheGet(cache, key), err |-> Nil,
          hit |-> CacheGet(cache, key)]
    ELSE IF ~attrsOK
    THEN [done |-> TRUE, id |-> NoID, err |-> ErrPayloadAttributes, hit |-> NoID]
    ELSE [done |-> FALSE, id |-> NoID, err |-> Nil, hit |-> NoID]

\* RequestPayloadAsync up to the forkchoice update: done when it returns
\* without one.
AsyncLookup(key, attrsOK) ==
    IF ~enabled
    THEN [done |-> TRUE, id |-> NoID, err |-> ErrPayloadBuilderDisabled,
          hit |-> NoID]
    ELSE IF CacheGet(cache, key) # NoID
    THEN [done |-> TRUE, id |-> CacheGet(cache, key), err |-> Nil,
          hit |-> CacheGet(cache, key)]
    ELSE IF ~attrsOK
    THEN [done |-> TRUE, id |-> NoID, err |-> ErrPayloadAttributes, hit |-> NoID]
    ELSE [done |-> FALSE, id |-> NoID, err |-> Nil, hit |-> NoID]

\* RequestPayloadAsync that caches the PayloadID under the parent root alone.
AsyncInsert_IgnoresSlot(f, r) ==
    IF r.err # Nil
    THEN [id |-> NoID, err |-> r.err, cache |-> cache]
    ELSE [id |-> r.pid, err |-> Nil,
          cache |-> IF r.pid # NoID
                    THEN [k \in Keys |-> IF k[2] = f.root THEN r.pid ELSE cache[k]]
                    ELSE cache]

\* RequestPayloadAsync that returns the PayloadID without caching it.
AsyncInsert_NoSet(f, r) ==
    IF r.err # Nil
    THEN [id |-> NoID, err |-> r.err, cache |-> cache]
    ELSE [id |-> r.pid, err |-> Nil, cache |-> cache]

\* RequestPayloadAsync that drops the key's entry when the peer grants no
\* PayloadID.
AsyncInsert_DropsOnNil(f, r) ==
    IF r.err # Nil
    THEN [id |-> NoID, err |-> r.err, cache |-> cache]
    ELSE [id |-> r.pid, err |-> Nil,
          cache |-> CacheSet(cache, <<f.slot, f.root>>, r.pid)]

\* RequestPayloadAsync after NotifyForkchoiceUpdate returned r: the PayloadID
\* and error it returns and the cache it leaves.
AsyncInsert(f, r) ==
    IF r.err # Nil
    THEN [id |-> NoID, err |-> r.err, cache |-> cache]
    ELSE [id |-> r.pid, err |-> Nil,
          cache |-> IF r.pid # NoID
                    THEN CacheSet(cache, <<f.slot, f.root>>, r.pid)
                    ELSE cache]

\* A select that finds both channels ready and picks either.
SettleSelect_Race(ctxDone) ==
    IF ctxDone THEN {"ctx.Done", "time.After"} ELSE {"time.After"}

\* The select of RequestPayloadSync: the cases it may take, given whether ctx
\* is done. The timer of time.After starts with the select, so a ctx that is
\* done first wins.
SettleSelect(ctxDone) == IF ctxDone THEN {"ctx.Done"} ELSE {"time.After"}

\* RequestPayloadSync that does not test the PayloadID for nil.
SyncAfterAsync_NoNilCheck(f, id, err, c, o, tm) ==
    IF err # Nil THEN Done(f, ValErr(err), c, o, tm)
    ELSE Step("settle", [f EXCEPT !.pid = id, !.settle = "waiting"], NoRet, c, tm)

\* RequestPayloadSync after RequestPayloadAsync returned (id, err).
SyncAfterAsync(f, id, err, c, o, tm) ==
    IF err # Nil THEN Done(f, ValErr(err), c, o, tm)
    ELSE IF id = NoID THEN Done(f, ValErr(ErrNilPayloadID), c, o, tm)
    ELSE Step("settle", [f EXCEPT !.pid = id, !.settle = "waiting"], NoRet, c, tm)

\* RequestPayloadAsync returns (id, err), to its caller or to
\* RequestPayloadSync.
AsyncReturn(f, id, err, c, o, tm) ==
    IF f.op = "RequestPayloadAsync"
    THEN Done(f, [Val0 EXCEPT !.id = id, !.err = err], c, o, tm)
    ELSE SyncAfterAsync(f, id, err, c, o, tm)

\* SendForceHeadFCU that keeps the PayloadID the peer returns, under the
\* slot's key for the only parent root.
AfterForkchoiceUpdated_ForceHeadCaches(f, r, o) ==
    CASE f.op \in {"RequestPayloadAsync", "RequestPayloadSync"} ->
            LET a == AsyncInsert(f, r)
            IN AsyncReturn(f, a.id, a.err, a.cache, o, r.tm)
      [] f.op = "SendForceHeadFCU" ->
            Done(f, ValErr(r.err),
                 IF r.pid # NoID THEN CacheSet(cache, <<f.slot, "ra">>, r.pid)
                 ELSE cache, o, r.tm)
      [] OTHER ->
            Done(f, [Val0 EXCEPT !.id = r.pid, !.lvh = r.lvh, !.err = r.err],
                 cache, o, r.tm)

\* What follows ForkchoiceUpdated's return r in each operation that calls it.
AfterForkchoiceUpdated(f, r, o) ==
    CASE f.op \in {"RequestPayloadAsync", "RequestPayloadSync"} ->
            LET a == AsyncInsert(f, r)
            IN AsyncReturn(f, a.id, a.err, a.cache, o, r.tm)
      [] f.op = "SendForceHeadFCU" ->
            Done(f, ValErr(r.err), cache, o, r.tm)
      [] OTHER ->
            Done(f, [Val0 EXCEPT !.id = r.pid, !.lvh = r.lvh, !.err = r.err],
                 cache, o, r.tm)

\* ee.NotifyForkchoiceUpdate / ForkchoiceUpdated up to the transport request.
BeginForkchoiceUpdated(f) ==
    LET d == callUpdatedForkchoiceRPC(f.ver)
    IN IF d = Nil
       THEN Send(f, "engine_forkchoiceUpdated", ForkchoiceUpdatedContext)
       ELSE AfterForkchoiceUpdated(f, ForkchoiceUpdatedReturn(d, NoOutcome), NoOutcome)

\* A caller of GetPayload that asks once more when the first request failed.
AfterGetPayload_Retry(f, r, o) ==
    IF r.err # Nil /\ Len(f.sent) < 3
    THEN Step("rpc", [f EXCEPT !.sent = Append(@, f.sent[Len(f.sent)])], NoRet,
              cache, r.tm)
    ELSE IF f.op = "RetrievePayload" /\ r.env.nil
    THEN Done(f, ValErr(ErrNilPayloadEnvelope), cache, o, r.tm)
    ELSE Done(f, [Val0 EXCEPT !.env = r.env, !.err = r.err], cache, o, r.tm)

\* RetrievePayload that refuses a payload built for another fee recipient.
AfterGetPayload_RejectsForeignFee(f, r, o) ==
    IF f.op = "RetrievePayload"
    THEN IF r.err # Nil THEN Done(f, ValErr(r.err), cache, o, r.tm)
         ELSE IF r.env.nil \/ ~r.env.fee
         THEN Done(f, ValErr(ErrNilPayloadEnvelope), cache, o, r.tm)
         ELSE Done(f, [Val0 EXCEPT !.env = r.env], cache, o, r.tm)
    ELSE Done(f, [Val0 EXCEPT !.env = r.env, !.err = r.err], cache, o, r.tm)

\* A delivery that removes the redeemed entry from the cache.
AfterGetPayload_Consumes(f, r, o) ==
    IF f.op = "RetrievePayload"
    THEN IF r.err # Nil THEN Done(f, ValErr(r.err), cache, o, r.tm)
         ELSE IF r.env.nil
         THEN Done(f, ValErr(ErrNilPayloadEnvelope), cache, o, r.tm)
         ELSE Done(f, [Val0 EXCEPT !.env = r.env],
                   [cache EXCEPT ![<<f.slot, f.root>>] = NoID], o, r.tm)
    ELSE Done(f, [Val0 EXCEPT !.env = r.env, !.err = r.err], cache, o, r.tm)

\* What follows GetPayload's return r in each operation that calls it.
AfterGetPayload(f, r, o) ==
    IF f.op = "RetrievePayload"
    THEN IF r.err # Nil THEN Done(f, ValErr(r.err), cache, o, r.tm)
         ELSE IF r.env.nil
         THEN Done(f, ValErr(ErrNilPayloadEnvelope), cache, o, r.tm)
         ELSE Done(f, [Val0 EXCEPT !.env = r.env], cache, o, r.tm)
    ELSE Done(f, [Val0 EXCEPT !.env = r.env, !.err = r.err], cache, o, r.tm)

\* ee.GetPayload / GetPayload up to the transport request.
BeginGetPayload(f) ==
    LET d == GetPayloadDispatch(f.ver)
    IN IF d = Nil
       THEN Send(f, "engine_getPayload", GetPayloadContext)
       ELSE AfterGetPayload(f, [env |-> NoEnv, err |-> d, tm |-> "none"], NoOutcome)

\* NewPayload up to the transport request.
BeginNewPayload(f) ==
    LET d == callNewPayloadRPC(f.ver)
    IN IF d = Nil
       THEN Send(f, "engine_newPayload", NewPayloadContext)
       ELSE LET r == NewPayloadReturn(d, NoOutcome)
            IN Done(f, [Val0 EXCEPT !.lvh = r.lvh, !.err = r.err], cache,
                    NoOutcome, r.tm)

\* RequestPayloadAsync and RequestPayloadSync from their first statement.
BeginBuild(f, attrsOK) ==
    LET a == AsyncLookup(<<f.slot, f.root>>, attrsOK)
        g == [f EXCEPT !.hit = a.hit]
    IN IF a.done THEN AsyncReturn(g, a.id, a.err, cache, NoOutcome, "none")
       ELSE BeginForkchoiceUpdated(g)

\* RetrievePayload that redeems whatever the lookup returned, found or not.
BeginRetrieve_NoFoundCheck(f) ==
    IF ~enabled THEN Done(f, ValErr(ErrPayloadBuilderDisabled), cache, NoOutcome, "none")
    ELSE LET id == CacheGet(cache, <<f.slot, f.root>>)
         IN BeginGetPayload([f EXCEPT !.pid = id, !.hit = id])

\* RetrievePayload from its first statement.
BeginRetrieve(f) ==
    IF ~enabled THEN Done(f, ValErr(ErrPayloadBuilderDisabled), cache, NoOutcome, "none")
    ELSE LET id == CacheGet(cache, <<f.slot, f.root>>)
         IN IF id = NoID
            THEN Done(f, ValErr(ErrPayloadIDNotFound), cache, NoOutcome, "none")
            ELSE BeginGetPayload([f EXCEPT !.pid = id, !.hit = id])

\* SendForceHeadFCU from its first statement.
BeginForceHead(f, headerOK) ==
    IF ~headerOK THEN Done(f, ValErr(ErrLatestHeader), cache, NoOutcome, "none")
    ELSE BeginForkchoiceUpdated(f)

\* The PayloadID a peer response hands out for a build: the one in a non-nil
\* answer to a forkchoice update that carried attributes.
Granted(req, o) ==
    IF req.m = "engine_forkchoiceUpdated" /\ req.attrs /\ o.kind = "resp" /\ ~o.nil
    THEN o.pid ELSE NoID

\* The transport call of the suspended handler returned outcome o.
Resume(f, o) ==
    LET m == f.sent[Len(f.sent)].m
        err == TransportError(o)
        S == CASE m = "engine_forkchoiceUpdated" ->
                    AfterForkchoiceUpdated(f, ForkchoiceUpdatedReturn(err, o), o)
               [] m = "engine_getPayload" ->
                    AfterGetPayload(f, GetPayloadReturn(f.ver, err, o), o)
               [] m = "engine_newPayload" ->
                    LET r == NewPayloadReturn(err, o)
                    IN Done(f, [Val0 EXCEPT !.lvh = r.lvh, !.err = r.err], cache,
                            o, r.tm)
               [] OTHER -> ExchangeCapabilitiesReturn(f, err, o)
    IN [S EXCEPT !.got = Granted(f.sent[Len(f.sent)], o)]

\* ------------------------------------------------------------------ actions
Frame(op, slot, root, ver, attrs, pid) ==
    [IdleFrame EXCEPT !.op = op, !.slot = slot, !.root = root, !.ver = ver,
                      !.attrs = attrs, !.pid = pid,
                      !.entry = IF <<slot, root>> \in Keys
                                THEN cache[<<slot, root>>] ELSE NoID]

Apply(p, S) ==
    /\ pc' = [pc EXCEPT ![p] = S.next]
    /\ fr' = [fr EXCEPT ![p] = S.f]
    /\ ret' = IF S.next = "idle" THEN [S.r EXCEPT !.proc = p] ELSE NoRet
    /\ cancelled' = [cancelled EXCEPT ![p] = IF S.next = "idle" THEN FALSE ELSE @]
    /\ cache' = S.cache
    /\ issued' = [k \in Keys |->
                    IF S.cache[k] # cache[k] THEN issued[k] \cup {S.cache[k]}
                    ELSE issued[k]]
    /\ granted' = [k \in Keys |->
                     IF S.got # NoID /\ k = <<fr[p].slot, fr[p].root>>
                     THEN granted[k] \cup {S.got} ELSE granted[k]]
    /\ metric' = S.tm
    /\ capabilities' = S.caps
    /\ statusErr' = S.serr
    /\ UNCHANGED <<enabled, nevict, input, output,
          now, dctx>>

Start(p) ==
    /\ pc[p] = "idle"
    /\ ncalls < MaxCalls
    /\ ncalls' = ncalls + 1

Continue(p) == UNCHANGED ncalls

RequestPayloadAsync(p, slot, root, attrsOK) ==
    /\ Start(p)
    /\ Apply(p, BeginBuild(Frame("RequestPayloadAsync", slot, root,
                                 ActiveForkVersionForSlot(slot), TRUE, NoID),
                           attrsOK))

RequestPayloadSync(p, slot, root, attrsOK) ==
    /\ Start(p)
    /\ LET f == Frame("RequestPayloadSync", slot, root,
                      ActiveForkVersionForSlot(slot), TRUE, NoID)
       IN Apply(p, IF ~enabled
                   THEN Done(f, ValErr(ErrPayloadBuilderDisabled), cache,
                             NoOutcome, "none")
                   ELSE BeginBuild(f, attrsOK))

RetrievePayload(p, slot, root) ==
    /\ Start(p)
    /\ Apply(p, BeginRetrieve(Frame("RetrievePayload", slot, root,
                                    ActiveForkVersionForSlot(slot), FALSE, NoID)))

SendForceHeadFCU(p, slot, headerOK) ==
    /\ Start(p)
    /\ Apply(p, BeginForceHead(Frame("SendForceHeadFCU", slot, "none",
                                     ActiveForkVersionForSlot(slot), FALSE, NoID),
                               headerOK))

NewPayload(p, ver) ==
    /\ Start(p)
    /\ Apply(p, BeginNewPayload(Frame("NewPayload", 0, "none", ver, FALSE, NoID)))

ForkchoiceUpdated(p, ver, attrs) ==
    /\ Start(p)
    /\ Apply(p, BeginForkchoiceUpdated(
                    Frame("ForkchoiceUpdated", 0, "none", ver, attrs, NoID)))

GetPayload(p, pid, ver) ==
    /\ Start(p)
    /\ Apply(p, BeginGetPayload(Frame("GetPayload", 0, "none", ver, FALSE, pid)))

ExchangeCapabilities(p) ==
    /\ Start(p)
    /\ Apply(p, Send(Frame("ExchangeCapabilities", 0, "none", 0, FALSE, NoID),
                     "engine_exchangeCapabilities", ExchangeCapabilitiesContext))

\* ExchangeCapabilities, lines after the error branch, run without the lock.
StoreCapabilities(p) ==
    /\ pc[p] = "store"
    /\ Apply(p, StoreCapabilitiesReturn(fr[p]))
    /\ Continue(p)

\* Two goroutines assign to the map s.capabilities at once and the Go runtime
\* stops the process with "fatal error: concurrent map writes". The writes
\* may as well land one after the other (StoreCapabilities).
ConcurrentMapWrites(p) ==
    /\ pc[p] = "store"
    /\ fr[p].result # {}
    /\ \E q \in Procs \ {p} : pc[q] = "store" /\ fr[q].result # {}
    /\ pc' = [q \in Procs |-> "fatal"]
    /\ ret' = NoRet
    /\ metric' = "none"
    /\ UNCHANGED <<enabled, cache, fr, cancelled, ncalls, nevict,
                   capabilities, statusErr, issued, granted, input, output,
          now, dctx>>

\* The caller cancels the ctx of its running call while the call waits on it.
Cancel(p) ==
    /\ pc[p] \in {"rpc", "settle"}
    /\ ~cancelled[p]
    /\ cancelled' = [cancelled EXCEPT ![p] = TRUE]
    /\ ret' = NoRet
    /\ metric' = "none"
    /\ UNCHANGED <<enabled, cache, pc, fr, ncalls, nevict,
                   capabilities, statusErr, issued, granted, input, output,
          now, dctx>>

InFlight(p) == fr[p].sent[Len(fr[p].sent)]

\* The peer answers the request in flight, or the transport fails on its own.
PeerAnswer(p) ==
    /\ pc[p] = "rpc"
    /\ \E o \in PeerAnswers(InFlight(p)) \cup ErrorOutcomes :
          Apply(p, Resume(fr[p], o))
    /\ Continue(p)

\* s.cfg.RPCTimeout elapses before the ctx is done and before any answer.
RPCTimeout(p) ==
    /\ pc[p] = "rpc"
    /\ InFlight(p).dl = "dctx"
    /\ ~cancelled[p]
    /\ Apply(p, Resume(fr[p], TimeoutOutcome))
    /\ Continue(p)

\* The transport call returns because the caller's ctx is done.
CallCancelled(p) ==
    /\ pc[p] = "rpc"
    /\ cancelled[p]
    /\ Apply(p, Resume(fr[p], CancelOutcome))
    /\ Continue(p)

\* RequestPayloadSync that, after the wait, redeems whatever PayloadID the
\* cache holds for the key by then.
SettleElapsed_RedeemsCached(p) ==
    /\ pc[p] = "settle"
    /\ "time.After" \in SettleSelect(cancelled[p])
    /\ Apply(p, BeginGetPayload([fr[p] EXCEPT !.settle = "elapsed",
                                   !.pid = cache[<<fr[p].slot, fr[p].root>>]]))
    /\ Continue(p)

\* RequestPayloadSync, case <-time.After(pb.cfg.PayloadTimeout).
SettleElapsed(p) ==
    /\ pc[p] = "settle"
    /\ "time.After" \in SettleSelect(cancelled[p])
    /\ Apply(p, BeginGetPayload([fr[p] EXCEPT !.settle = "elapsed"]))
    /\ Continue(p)

\* RequestPayloadSync, case <-ctx.Done().
SettleCancelled(p) ==
    /\ pc[p] = "settle"
    /\ "ctx.Done" \in SettleSelect(cancelled[p])
    /\ Apply(p, Done([fr[p] EXCEPT !.settle = "cancelled"],
                     ValErr(ContextCanceled), cache, NoOutcome, "none"))
    /\ Continue(p)

\* The payload cache drops the entry of a key.
Evict(key) ==
    /\ cache[key] # NoID
    /\ nevict < MaxEvict
    /\ nevict' = nevict + 1
    /\ cache' = [cache EXCEPT ![key] = NoID]
    /\ issued' = [issued EXCEPT ![key] = {}]
    /\ ret' = NoRet
    /\ metric' = "none"
    /\ UNCHANGED <<enabled, pc, fr, cancelled, ncalls,
                   capabilities, statusErr, granted, input, output,
          now, dctx>>

Init ==
    /\ enabled \in BOOLEAN
    /\ cache = [k \in Keys |-> NoID]
    /\ pc = [p \in Procs |-> "idle"]
    /\ fr = [p \in Procs |-> IdleFrame]
    /\ cancelled = [p \in Procs |-> FALSE]
    /\ ret = NoRet
    /\ ncalls = 0
    /\ nevict = 0
    /\ metric = "none"
    /\ capabilities = {}
    /\ statusErr = Nil
    /\ issued = [k \in Keys |-> {}]
    /\ granted = [k \in Keys |-> {}]
    /\ input = NoInput
    /\ output = NoOutput
    /\ now = 0
    /\ dctx = NoCtx

\* The payload builder under concurrent callers.
Next ==
    \/ \E p \in Procs, s \in Slots, r \in Roots, a \in BOOLEAN :
          RequestPayloadAsync(p, s, r, a)
    \/ \E p \in Procs, s \in Slots, r \in Roots, a \in BOOLEAN :
          RequestPayloadSync(p, s, r, a)
    \/ \E p \in Procs, s \in Slots, r \in Roots : RetrievePayload(p, s, r)
    \/ \E p \in Procs, s \in Slots, h \in BOOLEAN : SendForceHeadFCU(p, s, h)
    \/ \E p \in Procs : Cancel(p)
    \/ \E p \in Procs : PeerAnswer(p)
    \/ \E p \in Procs : RPCTimeout(p)
    \/ \E p \in Procs : CallCancelled(p)
    \/ \E p \in Procs : SettleElapsed(p)
    \/ \E p \in Procs : SettleCancelled(p)
    \/ \E k \in Keys : Evict(k)

Spec == Init /\ [][Next]_vars

\* The engine client called directly.
NextEngine ==
    \/ \E p \in Procs, v \in Versions : NewPayload(p, v)
    \/ \E p \in Procs, v \in Versions, a \in BOOLEAN : ForkchoiceUpdated(p, v, a)
    \/ \E p \in Procs, i \in PayloadIDs, v \in Versions : GetPayload(p, i, v)
    \/ \E p \in Procs : ExchangeCapabilities(p)
    \/ \E p \in Procs : StoreCapabilities(p)
    \/ \E p \in Procs : ConcurrentMapWrites(p)
    \/ \E p \in Procs : Cancel(p)
    \/ \E p \in Procs : PeerAnswer(p)
    \/ \E p \in Procs : RPCTimeout(p)
    \/ \E p \in Procs : CallCancelled(p)

SpecEngine == Init /\ [][NextEngine]_vars

\* A goroutine blocked on a timer that has fired or a ctx that is done runs.
Wake(p) ==
    \/ RPCTimeout(p)
    \/ CallCancelled(p)
    \/ SettleElapsed(p)
    \/ SettleCancelled(p)

\* The payload builder in front of a peer that has stopped answering, started
\* with whatever entries earlier builds have left in the cache.
InitStalled ==
    /\ enabled \in BOOLEAN
    /\ cache \in [Keys -> PayloadIDs \cup {NoID}]
    /\ ~enabled => cache = [k \in Keys |-> NoID]
    /\ issued = [k \in Keys |-> {cache[k]} \ {NoID}]
    /\ granted = issued
    /\ pc = [p \in Procs |-> "idle"]
    /\ fr = [p \in Procs |-> IdleFrame]
    /\ cancelled = [p \in Procs |-> FALSE]
    /\ ret = NoRet
    /\ ncalls = 0
    /\ nevict = 0
    /\ metric = "none"
    /\ capabilities = {}
    /\ statusErr = Nil
    /\ input = NoInput
    /\ output = NoOutput
    /\ now = 0
    /\ dctx = NoCtx

NextStalled ==
    \/ \E p \in Procs, s \in Slots, r \in Roots, a \in BOOLEAN :
          RequestPayloadAsync(p, s, r, a)
    \/ \E p \in Procs, s \in Slots, r \in Roots, a \in BOOLEAN :
          RequestPayloadSync(p, s, r, a)
    \/ \E p \in Procs, s \in Slots, r \in Roots : RetrievePayload(p, s, r)
    \/ \E p \in Procs, s \in Slots, h \in BOOLEAN : SendForceHeadFCU(p, s, h)
    \/ \E p \in Procs : Cancel(p)
    \/ \E p \in Procs : RPCTimeout(p)
    \/ \E p \in Procs : CallCancelled(p)
    \/ \E p \in Procs : SettleElapsed(p)
    \/ \E p \in Procs : SettleCancelled(p)

\* The Go scheduler is fair to every goroutine that a timer or a ctx has made
\* runnable.
SpecStalled == InitStalled /\ [][NextStalled]_vars /\ \A p \in Procs : WF_vars(Wake(p))

\* ------------------------------------------------------- payload attributes
\* version.Capella, the fork that introduced withdrawals.
Capella == 3
\* The zero value of primitives.Bytes32.
ZeroBytes32 == "0x00..00"
\* A slice of withdrawals: nil, or a (possibly empty) list of elements.
NilWithdrawals == [nil |-> TRUE, items |-> <<>>]
Withdrawals(items) == [nil |-> FALSE, items |-> items]

ErrInvalidTimestamp == "ErrInvalidTimestamp"
ErrEmptyPrevRandao == "ErrEmptyPrevRandao"
ErrNilWithdrawals == "ErrNilWithdrawals"

\* PayloadAttributes.Validate
Validate(p) ==
    IF p.Timestamp = 0 THEN ErrInvalidTimestamp
    ELSE IF p.PrevRandao = ZeroBytes32 THEN ErrEmptyPrevRandao
    ELSE IF p.Withdrawals = NilWithdrawals /\ p.version >= Capella
    THEN ErrNilWithdrawals
    ELSE Nil

\* The nil *PayloadAttributes.
NilAttributes == [nil |-> TRUE, version |-> 0, Timestamp |-> 0,
                  PrevRandao |-> ZeroBytes32, Withdrawals |-> NilWithdrawals]

\* NewPayloadAttributes: the attributes and the error it returns.
NewPayloadAttributes(forkVersion, timestamp, prevRandao, withdrawals) ==
    LET p == [nil |-> FALSE, version |-> forkVersion, Timestamp |-> timestamp,
              PrevRandao |-> prevRandao, Withdrawals |-> withdrawals]
    IN IF Validate(p) # Nil THEN [p |-> NilAttributes, err |-> Validate(p)]
       ELSE [p |-> p, err |-> Nil]

\* The arguments the callers of the model pass.
AttributeInputs ==
    [forkVersion : 0..5, timestamp : 0..2, prevRandao : {ZeroBytes32, "0xr1"},
     withdrawals : {NilWithdrawals, Withdrawals(<<>>), Withdrawals(<<"w1">>)}]

\* The program state while only pure functions run.
Quiescent ==
    /\ enabled = FALSE
    /\ cache = [k \in Keys |-> NoID]
    /\ pc = [p \in Procs |-> "idle"]
    /\ fr = [p \in Procs |-> IdleFrame]
    /\ cancelled = [p \in Procs |-> FALSE]
    /\ ret = NoRet
    /\ ncalls = 0
    /\ nevict = 0
    /\ metric = "none"
    /\ capabilities = {}
    /\ statusErr = Nil
    /\ issued = [k \in Keys |-> {}]
    /\ granted = [k \in Keys |-> {}]

Idle == UNCHANGED <<enabled, cache, pc, fr, cancelled, ret, ncalls, nevict,
                    metric, capabilities, statusErr, issued, granted>>

InitAttributes ==
    /\ Quiescent
    /\ input \in AttributeInputs
    /\ output = NoOutput
    /\ now = 0
    /\ dctx = NoCtx

CallNewPayloadAttributes ==
    /\ output = NoOutput
    /\ output' = Returned(NewPayloadAttributes(input.forkVersion, input.timestamp,
                                               input.prevRandao, input.withdrawals))
    /\ UNCHANGED <<input, now, dctx>>
    /\ Idle

NextAttributes == CallNewPayloadAttributes

\* NewPayloadAttributes called on every combination of arguments.
SpecAttributes == InitAttributes /\ [][NextAttributes]_vars

\* ------------------------------------------------------------------ math.U64
\* U64NumBits
U64NumBits == 64
\* A U64 is the set of the positions of its one-bits.
Bits == 0..(U64NumBits - 1)
Zero == {}
One == {0}
Max(S) == CHOOSE x \in S : \A y \in S : y <= x

\* u >> k and u | v
Shr(u, k) == {i - k : i \in {j \in u : j >= k}}
Or(u, v) == u \cup v

\* u + v and u - v on 64 bits, bit by bit from position i with a carry or a
\* borrow; what leaves bit 63 is lost.
RECURSIVE AddFrom(_, _, _, _)
AddFrom(u, v, i, carry) ==
    IF i = U64NumBits THEN {}
    ELSE LET a == i \in u
             b == i \in v
         IN (IF (a # b) # carry THEN {i} ELSE {})
                \cup AddFrom(u, v, i + 1, (a /\ b) \/ (carry /\ (a \/ b)))
Add(u, v) == AddFrom(u, v, 0, FALSE)

RECURSIVE SubFrom(_, _, _, _)
SubFrom(u, v, i, borrow) ==
    IF i = U64NumBits THEN {}
    ELSE LET a == i \in u
             b == i \in v
         IN (IF (a # b) # borrow THEN {i} ELSE {})
                \cup SubFrom(u, v, i + 1, (~a /\ (b \/ borrow)) \/ (b /\ borrow))
Sub(u, v) == SubFrom(u, v, 0, FALSE)

\* u > v
Gt(u, v) ==
    LET d == (u \ v) \cup (v \ u)
    IN d # {} /\ Max(d) \in u

\* The six shift-and-or statements both functions share.
Smear(u) ==
    LET a == Or(u, Shr(u, 1))
        b == Or(a, Shr(a, 2))
        c == Or(b, Shr(b, 4))
        d == Or(c, Shr(c, 8))
        e == Or(d, Shr(d, 16))
    IN Or(e, Shr(e, 32))

\* NextPowerOfTwo without the test for inputs above 1 << 63.
NextPowerOfTwo_NoPanic(u) ==
    IF u = Zero THEN [panic |-> FALSE, value |-> One]
    ELSE [panic |-> FALSE, value |-> Add(Smear(Sub(u, One)), One)]

\* U64.NextPowerOfTwo: the value it returns, or that it panics.
NextPowerOfTwo(u) ==
    IF u = Zero THEN [panic |-> FALSE, value |-> One]
    ELSE IF Gt(u, {U64NumBits - 1}) THEN [panic |-> TRUE, value |-> Zero]
    ELSE [panic |-> FALSE, value |-> Add(Smear(Sub(u, One)), One)]

\* U64.PrevPowerOfTwo
PrevPowerOfTwo(u) ==
    IF u = Zero THEN [panic |-> FALSE, value |-> One]
    ELSE LET w == Smear(u)
         IN [panic |-> FALSE, value |-> Sub(w, Shr(w, 1))]

\* The values with at most n one-bits.
RECURSIVE WithOnes(_)
WithOnes(n) ==
    IF n = 0 THEN {Zero}
    ELSE {s \cup {i} : s \in WithOnes(n - 1), i \in Bits}

\* The receivers the calls of the model are made on: the sparse values, the
\* values with one zero-bit, and the runs of ones from bit 0 and up to bit 63.
U64Samples ==
    WithOnes(MaxOnes) \cup {Bits \ {i} : i \in Bits}
        \cup {0..k : k \in Bits} \cup {k..(U64NumBits - 1) : k \in Bits}

InitU64 ==
    /\ Quiescent
    /\ input \in U64Samples
    /\ output = NoOutput
    /\ now = 0
    /\ dctx = NoCtx

CallNextPowerOfTwo ==
    /\ output = NoOutput
    /\ output' = Returned([fn |-> "NextPowerOfTwo"] @@ NextPowerOfTwo(input))
    /\ UNCHANGED <<input, now, dctx>>
    /\ Idle

CallPrevPowerOfTwo ==
    /\ output = NoOutput
    /\ output' = Returned([fn |-> "PrevPowerOfTwo"] @@ PrevPowerOfTwo(input))
    /\ UNCHANGED <<input, now, dctx>>
    /\ Idle

NextU64 == CallNextPowerOfTwo \/ CallPrevPowerOfTwo

\* The two power-of-two functions called on 64-bit values.
SpecU64 == InitU64 /\ [][NextU64]_vars

\* ------------------------------------------------------------------- claims
FCU == "engine_forkchoiceUpdated"
GetP == "engine_getPayload"

\* The methods of the requests a call has sent.
Methods(sent) == {sent[i].m : i \in 1..Len(sent)}
\* The forkchoice updates with attributes among them.
NBuild(sent) == Cardinality({i \in 1..Len(sent) : sent[i].m = FCU /\ sent[i].attrs})

\* C1 as stated: a RequestPayloadAsync call made while the cache holds an
\* entry for its key returns, with no error and no request to the peer, the
\* one PayloadID that every successful build of that key has returned.
C1_HitReturnsThePayloadID ==
    (ret.op = "RequestPayloadAsync" /\ ret.entry # NoID)
        => /\ ret.err = Nil
           /\ ret.sent = <<>>
           /\ ret.prior = {ret.id}

\* C1 amended: such a call returns, with no error and no request to the
\* peer, the PayloadID the cache holds for the key at that moment, which is
\* one a successful build of that key has inserted.
C1_HitReturnsCachedID ==
    (ret.op = "RequestPayloadAsync" /\ ret.entry # NoID)
        => /\ ret.err = Nil
           /\ ret.sent = <<>>
           /\ ret.cause = "none"
           /\ ret.id = ret.entry
           /\ ret.id \in ret.prior

\* C1 witness: a second call on a key returns its cached PayloadID.
C1_Witness ==
    /\ ret.op = "RequestPayloadAsync"
    /\ ret.entry \in PayloadIDs
    /\ ret.id = ret.entry
    /\ ret.sent = <<>>

\* C2 as stated: at no time are two forkchoice updates with attributes for
\* the same key outstanding at the execution peer.
C2_AtMostOneInFlight ==
    \A p, q \in Procs :
        (/\ p # q
         /\ pc[p] = "rpc" /\ pc[q] = "rpc"
         /\ InFlight(p).m = FCU /\ InFlight(p).attrs
         /\ InFlight(q).m = FCU /\ InFlight(q).attrs)
            => <<fr[p].slot, fr[p].root>> # <<fr[q].slot, fr[q].root>>

\* C2 amended: a call sends a forkchoice update with attributes only in the
\* step in which its cache lookup finds no entry for the key, and sends one
\* at most; calls that start while the key has an entry send none.
C2_BuildOnlyOnMiss ==
    [][\A p \in Procs :
          NBuild(fr'[p].sent) > NBuild(fr[p].sent)
              => /\ cache[<<fr'[p].slot, fr'[p].root>>] = NoID
                 /\ fr'[p].entry = NoID
                 /\ NBuild(fr'[p].sent) = 1]_vars

\* C2 witness: two calls on one key both have a build request in flight.
C2_Witness ==
    \E p, q \in Procs :
        /\ p # q
        /\ pc[p] = "rpc" /\ pc[q] = "rpc"
        /\ InFlight(p).m = FCU /\ InFlight(p).attrs
        /\ InFlight(q).m = FCU /\ InFlight(q).attrs
        /\ fr[p].slot = fr[q].slot /\ fr[p].root = fr[q].root

C4_CancelBeatsSettleTimer ==
    /\ [](ret.settle = "cancelled"
            => /\ ret.op = "RequestPayloadSync"
               /\ ret.err = ContextCanceled
               /\ ret.env = NoEnv
               /\ GetP \notin Methods(ret.sent))
    /\ [][\A p \in Procs :
            (pc[p] = "settle" /\ cancelled[p] /\ pc'[p] # "settle")
                => (ret'.proc = p /\ ret'.settle = "cancelled")]_vars

\* C4 witness: a call that had obtained its PayloadID from the peer was
\* cancelled in the settle wait.
C4_Witness ==
    /\ ret.op = "RequestPayloadSync"
    /\ ret.settle = "cancelled"
    /\ FCU \in Methods(ret.sent)

\* The invalid-version error each version-dispatched operation designates.
InvalidVersionError(op) ==
    CASE op = "NewPayload" -> ErrInvalidPayloadType
      [] op = "ForkchoiceUpdated" -> ErrInvalidPayloadAttributes
      [] OTHER -> ErrInvalidGetPayloadVersion
Dispatched == {"NewPayload", "ForkchoiceUpdated", "GetPayload"}

\* C5 as stated: with any fork version but the supported one, the three
\* version-dispatched operations return their designated invalid-version
\* error and make no request.
C5_UnsupportedIsInvalidVersion ==
    (ret.op \in Dispatched /\ ret.ver # Deneb)
        => (ret.sent = <<>> /\ ret.err = InvalidVersionError(ret.op))

\* C6: with the timers fair and a peer that answers no request, every call of
\* RequestPayloadAsync, RequestPayloadSync, RetrievePayload and
\* SendForceHeadFCU that is running eventually returns.
C6_EveryBuilderCallReturns ==
    \A p \in Procs : (pc[p] # "idle") ~> (pc[p] = "idle")

\* C6 witness: a RequestPayloadSync call that sat out the settle timer
\* returned when the RPC timeout of its unanswered get-payload request
\* expired.
C6_Witness ==
    /\ ret.op = "RequestPayloadSync"
    /\ ret.settle = "elapsed"
    /\ ret.cause = "timeout"
    /\ ret.err = ErrEngineAPITimeout

\* C7 as stated: every transport request of the four engine client
\* operations is made under the derived deadline context, never under the
\* caller's ctx alone.
C7_EveryRequestUnderDeadline ==
    \A p \in Procs :
        (pc[p] = "rpc" /\ fr[p].op \in EngineOps) => InFlight(p).dl = "dctx"

\* The timeout counter of each version-dispatched operation.
TimeoutCounter(op) ==
    CASE op = "NewPayload" -> "newPayload"
      [] op = "ForkchoiceUpdated" -> "forkchoiceUpdate"
      [] OTHER -> "getPayload"

\* C8: when the caller's ctx is done before the RPC timeout during
\* NewPayload, ForkchoiceUpdated or GetPayload, the error returned is not the
\* engine API timeout and no timeout counter is incremented.
C8_CancelIsNotTimeout ==
    (ret.op \in Dispatched /\ ret.cause = "cancel")
        => /\ ~IsEngineAPITimeout(ret.err)
           /\ ret.err = ContextCanceled
           /\ ret.tinc = 0
           /\ metric = "none"

\* C8 witness: a ForkchoiceUpdated call ended by the caller's cancellation.
C8_Witness ==
    /\ ret.op = "ForkchoiceUpdated"
    /\ ret.cause = "cancel"
    /\ ret.sent # <<>>

\* C9: a NewPayload, ForkchoiceUpdated or GetPayload call that fails on the
\* RPC timeout increments its own timeout counter once and returns an error
\* recognised as the engine API timeout; on every other outcome the error is
\* not the timeout and no timeout counter moves.
C9_TimeoutPairedWithMetric ==
    /\ (ret.op \in Dispatched /\ ret.cause = "timeout")
          => /\ IsEngineAPITimeout(ret.err)
             /\ ret.tinc = 1
             /\ metric = TimeoutCounter(ret.op)
    /\ (ret.op \in Dispatched /\ ret.cause # "timeout")
          => /\ ~IsEngineAPITimeout(ret.err)
             /\ ret.tinc = 0
             /\ metric = "none"
    /\ metric # "none" => (ret.op \in Dispatched /\ ret.cause = "timeout")

\* C9 witness: a GetPayload call that timed out and counted it.
C9_Witness ==
    /\ ret.op = "GetPayload"
    /\ ret.cause = "timeout"
    /\ metric = "getPayload"

\* C10: when the peer's payload status is VALID with latest valid hash h,
\* NewPayload and ForkchoiceUpdated return exactly h and no error.
C10_ValidReturnsHash ==
    (ret.op \in {"NewPayload", "ForkchoiceUpdated"} /\ ret.status = "VALID")
        => (ret.lvh = ret.rlvh /\ ret.err = Nil)

\* C10 witness: NewPayload returns the hash of a VALID status.
C10_Witness ==
    /\ ret.op = "NewPayload"
    /\ ret.status = "VALID"
    /\ ret.rlvh \in Hashes
    /\ ret.lvh = ret.rlvh

\* The two operations that classify a payload status.
Classifying == {"NewPayload", "ForkchoiceUpdated"}
StatusErrors == {ErrAcceptedPayloadStatus, ErrSyncingPayloadStatus,
                 ErrInvalidPayloadStatus, ErrUnknownPayloadStatus}

\* C11: for a payload status ACCEPTED, SYNCING or INVALID, with or without a
\* latest valid hash, NewPayload and ForkchoiceUpdated return the error of
\* that status; the three errors differ from one another, from nil and from
\* the unknown-status error.
C11_FailureStatusesAreErrors ==
    /\ (ret.op \in Classifying /\ ret.status \in {"ACCEPTED", "SYNCING", "INVALID"})
          => /\ ret.err # Nil
             /\ ret.err # ErrUnknownPayloadStatus
             /\ (ret.status = "ACCEPTED") = (ret.err = ErrAcceptedPayloadStatus)
             /\ (ret.status = "SYNCING") = (ret.err = ErrSyncingPayloadStatus)
             /\ (ret.status = "INVALID") = (ret.err = ErrInvalidPayloadStatus)
    /\ Cardinality(StatusErrors \cup {Nil}) = 5

\* C11 witness: a forkchoice update answered INVALID without a latest valid
\* hash returns the invalid-status error.
C11_Witness ==
    /\ ret.op = "ForkchoiceUpdated"
    /\ ret.status = "INVALID"
    /\ ret.rlvh = NoHash
    /\ ret.err = ErrInvalidPayloadStatus

\* C12: for a status outside VALID, INVALID, SYNCING and ACCEPTED the
\* classifier returns the unknown-status error; it has a result for every
\* status and hash, and the step that classifies changes neither the cache
\* nor the capabilities nor the status error cell.
C12_ClassifierTotal ==
    /\ [](/\ (ret.op \in Classifying /\ ret.status \notin
                  {"none", "VALID", "INVALID", "SYNCING", "ACCEPTED"})
                => ret.err = ErrUnknownPayloadStatus
          /\ \A st \in Statuses, h \in Hashes \cup {NoHash} :
                /\ processPayloadStatusResult(st, h).err \in StatusErrors \cup {Nil}
                /\ processPayloadStatusResult(st, h).lvh \in {h, NoHash})
    /\ [][(ret'.op \in Classifying /\ ret'.status # "none")
            => UNCHANGED <<enabled, cache, issued, capabilities, statusErr>>]_vars

\* C12 witness: NewPayload answered with a status the protocol does not
\* define.
C12_Witness ==
    /\ ret.op = "NewPayload"
    /\ ret.status = "BOGUS"
    /\ ret.err = ErrUnknownPayloadStatus

\* C13: when the peer answers engine_newPayload with SYNCING and a latest
\* valid hash h, NewPayload returns h together with the syncing error.
C13_SyncingKeepsHash ==
    (ret.op = "NewPayload" /\ ret.status = "SYNCING" /\ ret.rlvh \in Hashes)
        => (ret.lvh = ret.rlvh /\ ret.err = ErrSyncingPayloadStatus)

\* C13 witness: such a NewPayload call returned.
C13_Witness ==
    /\ ret.op = "NewPayload"
    /\ ret.status = "SYNCING"
    /\ ret.rlvh \in Hashes
    /\ ret.lvh \in Hashes
    /\ ret.err = ErrSyncingPayloadStatus

\* C14: GetPayload with a fork version at or after Deneb fails with the
\* nil-blobs-bundle error when the peer's envelope is not nil but has no
\* blobs bundle, and never returns such an envelope without an error.
C14_NilBlobsBundleFails ==
    /\ (/\ ret.op = "GetPayload" /\ ret.cause = "resp" /\ ret.ver >= Deneb
        /\ ~ret.env.nil /\ ~ret.env.blobs)
          => ret.err = ErrNilBlobsBundle
    /\ (ret.op = "GetPayload" /\ ret.ver >= Deneb /\ ret.err = Nil)
          => (~ret.env.nil /\ ret.env.blobs)

\* C14 witness: a Deneb GetPayload answered with an envelope that has no
\* blobs bundle.
C14_Witness ==
    /\ ret.op = "GetPayload"
    /\ ret.ver = Deneb
    /\ ret.cause = "resp"
    /\ ~ret.env.nil /\ ~ret.env.blobs
    /\ ret.err = ErrNilBlobsBundle

\* The builder operations that test pb.Enabled().
Guarded == {"RequestPayloadAsync", "RequestPayloadSync", "RetrievePayload"}

\* C15: on a disabled builder RequestPayloadAsync, RequestPayloadSync and
\* RetrievePayload return ErrPayloadBuilderDisabled in the step that calls
\* them: no request, no cache lookup or insert, no settle wait.
C15_DisabledFailsAtOnce ==
    /\ [](~enabled =>
            /\ ret.op \in Guarded
                  => /\ ret.err = ErrPayloadBuilderDisabled
                     /\ ret.sent = <<>>
                     /\ ret.hit = NoID
                     /\ ret.settle = "none"
                     /\ ret.id = NoID /\ ret.env = NoEnv
            /\ \A p \in Procs : fr[p].op \notin Guarded
            /\ \A k \in Keys : cache[k] = NoID)
    /\ [][(~enabled /\ ret'.op \in Guarded)
            => (pc[ret'.proc] = "idle" /\ cache' = cache)]_vars

\* C15 witness: RequestPayloadSync on a disabled builder.
C15_Witness ==
    /\ ~enabled
    /\ ret.op = "RequestPayloadSync"
    /\ ret.err = ErrPayloadBuilderDisabled

\* The key of a call.
KeyOf(f) == <<f.slot, f.root>>

\* C16: RequestPayloadAsync (called directly or by RequestPayloadSync) that
\* missed the cache writes the cache only in the step in which
\* NotifyForkchoiceUpdate returns no error and a PayloadID p, and then
\* writes exactly p under its key; every other step of it, a failed or
\* id-less forkchoice update included, leaves the cache as it is.
C16_InsertIffPayloadID ==
    [][/\ \A p \in Procs :
            (ret'.proc = p /\ ret'.op = "RequestPayloadAsync")
               => cache' = IF ret'.hit = NoID /\ ret'.err = Nil /\ ret'.id # NoID
                           THEN CacheSet(cache, KeyOf(ret'), ret'.id)
                           ELSE cache
       /\ \A p \in Procs :
            (pc[p] = "rpc" /\ pc'[p] = "settle")
               => cache' = CacheSet(cache, KeyOf(fr'[p]), fr'[p].pid)
       /\ \A p \in Procs :
            (fr'[p] # fr[p] /\ pc'[p] = "rpc") => cache' = cache
       /\ \A p \in Procs :
            (ret'.proc = p /\ ret'.op = "RequestPayloadSync"
               /\ ret'.settle = "none") => cache' = cache]_vars

\* C16 witness: a call that missed returned the peer's PayloadID and the
\* cache holds it.
C16_Witness ==
    /\ ret.op = "RequestPayloadAsync"
    /\ ret.hit = NoID
    /\ ret.id \in PayloadIDs
    /\ cache[KeyOf(ret)] = ret.id

\* C17: when the peer answers the forkchoice update of RequestPayloadAsync
\* with ACCEPTED or SYNCING, the call returns that status's error and no
\* PayloadID and leaves the cache unchanged; and a call on an enabled
\* builder returns without contacting the peer only on a cache hit or when
\* it could not form the request, so a retry that still misses contacts the
\* peer again.
C17_SoftStatusLeavesCache ==
    /\ []((ret.op \in {"RequestPayloadAsync", "RequestPayloadSync"}
             /\ ret.status \in {"ACCEPTED", "SYNCING"})
            => /\ ret.id = NoID
               /\ ret.env = NoEnv
               /\ ret.err = IF ret.status = "ACCEPTED"
                            THEN ErrAcceptedPayloadStatus
                            ELSE ErrSyncingPayloadStatus)
    /\ [][(ret'.op \in {"RequestPayloadAsync", "RequestPayloadSync"}
             /\ ret'.status \in {"ACCEPTED", "SYNCING"})
            => cache' = cache]_vars
    /\ []((ret.op = "RequestPayloadAsync" /\ ret.sent = <<>> /\ enabled)
            => \/ ret.entry # NoID
               \/ ret.err \in {ErrPayloadAttributes, ErrTODOElectra})

\* C17 witness: a build answered SYNCING together with a PayloadID left no
\* cache entry.
C17_Witness ==
    /\ ret.op = "RequestPayloadAsync"
    /\ ret.status = "SYNCING"
    /\ ret.err = ErrSyncingPayloadStatus
    /\ cache[KeyOf(ret)] = NoID

\* The get-payload requests among the requests a call has sent.
Redeems(sent) == {sent[i] : i \in {j \in 1..Len(sent) : sent[j].m = GetP}}

C19_HeadSafeFinalizedEqual ==
    \A p \in Procs :
        (fr[p].op = "SendForceHeadFCU" /\ pc[p] = "rpc")
            => /\ InFlight(p).state.head = "lph.BlockHash"
               /\ InFlight(p).state.safe = "lph.BlockHash"
               /\ InFlight(p).state.finalized = "lph.BlockHash"

\* C19 amended: SendForceHeadFCU sends one forkchoice update, without
\* attributes, whose head hash is the block hash of the latest execution
\* payload header and whose safe and finalized hashes are both that header's
\* parent hash.
C19_HeadIsHeaderSafeIsParent ==
    /\ \A p \in Procs :
          (fr[p].op = "SendForceHeadFCU" /\ pc[p] = "rpc")
              => /\ Len(fr[p].sent) = 1
                 /\ InFlight(p).m = FCU
                 /\ ~InFlight(p).attrs
                 /\ InFlight(p).state.head = "lph.BlockHash"
                 /\ InFlight(p).state.safe = "lph.ParentHash"
                 /\ InFlight(p).state.finalized = "lph.ParentHash"
    /\ ret.op = "SendForceHeadFCU"
          => /\ Len(ret.sent) <= 1
             /\ \A i \in 1..Len(ret.sent) :
                   /\ ret.sent[i].m = FCU
                   /\ ~ret.sent[i].attrs
                   /\ ret.sent[i].state.head = "lph.BlockHash"
                   /\ ret.sent[i].state.safe = "lph.ParentHash"
                   /\ ret.sent[i].state.finalized = "lph.ParentHash"

\* C19 witness: the forkchoice update of SendForceHeadFCU is in flight.
C19_Witness ==
    \E p \in Procs :
        /\ fr[p].op = "SendForceHeadFCU"
        /\ pc[p] = "rpc"
        /\ InFlight(p).m = FCU

\* The error ForkchoiceUpdated returns for the transport outcome a return
\* records (Nil: none).
TriggerError(r) ==
    LET o == [Outcome0 EXCEPT !.kind = r.cause, !.nil = (r.status = "none"),
                              !.status = r.status, !.lvh = r.rlvh]
    IN ForkchoiceUpdatedReturn(TransportError(o), o).err

\* C20: RequestPayloadSync whose RequestPayloadAsync returned no error and
\* no PayloadID returns ErrNilPayloadID, and one whose RequestPayloadAsync
\* failed returns that error; in both cases it does not enter the settle
\* wait and sends no get-payload request. It waits only with a PayloadID.
C20_NilPayloadIDOrTriggerError ==
    /\ \A p \in Procs : pc[p] = "settle" => fr[p].pid # NoID
    /\ (ret.op = "RequestPayloadSync" /\ ret.err = ErrNilPayloadID)
          => ret.settle = "none"
    /\ (ret.op = "RequestPayloadSync" /\ ret.settle = "none" /\ enabled)
          => /\ GetP \notin Methods(ret.sent)
             /\ ret.env = NoEnv
             /\ ret.sent = <<>>
                   => ret.err \in {ErrPayloadAttributes, ErrTODOElectra}
             /\ ret.sent # <<>>
                   => ret.err = IF TriggerError(ret) # Nil THEN TriggerError(ret)
                                ELSE ErrNilPayloadID

\* C20 witness: the peer accepted the build as VALID without a PayloadID.
C20_Witness ==
    /\ ret.op = "RequestPayloadSync"
    /\ ret.status = "VALID"
    /\ ret.settle = "none"
    /\ ret.err = ErrNilPayloadID

\* The number of requests of method m among the requests a call has sent.
Count(sent, m) == Cardinality({i \in 1..Len(sent) : sent[i].m = m})

\* The requests one call of op may have sent: never more than one per wire
\* method it uses, the forkchoice update before the get-payload.
SingleShot(op, sent) ==
    /\ \A m \in Methods(sent) : Count(sent, m) = 1
    /\ CASE op \in EngineOps -> Len(sent) <= 1
         [] op \in {"RequestPayloadAsync", "SendForceHeadFCU"} ->
                Methods(sent) \subseteq {FCU}
         [] op = "RetrievePayload" -> Methods(sent) \subseteq {GetP}
         [] op = "RequestPayloadSync" ->
                /\ Methods(sent) \subseteq {FCU, GetP}
                /\ Len(sent) = 2 => (sent[1].m = FCU /\ sent[2].m = GetP)
         [] OTHER -> sent = <<>>

\* C21: a call never repeats a request: every running call and every return,
\* failed or not, has sent at most one request per wire method; an engine
\* client operation at most one request in all, RequestPayloadAsync at most
\* one forkchoice update, RequestPayloadSync at most one forkchoice update
\* followed by at most one get-payload, RetrievePayload at most one
\* get-payload.
C21_NoRetry ==
    /\ \A p \in Procs : SingleShot(fr[p].op, fr[p].sent)
    /\ SingleShot(ret.op, ret.sent)

\* C21 witness: a RequestPayloadSync call fails on its get-payload, having
\* sent its forkchoice update and that one get-payload.
C21_Witness ==
    /\ ret.op = "RequestPayloadSync"
    /\ ret.err \notin {Nil, ErrNilBlobsBundle}
    /\ Len(ret.sent) = 2
    /\ ret.cause \in {"timeout", "rpcerr", "neterr"}

\* C22 as stated: once a key has a cache entry, every step leaves the entry
\* as it is or, by eviction only, removes it.
C22_EntryNeverReplaced ==
    [][\A k \in Keys :
          cache[k] # NoID
              => \/ cache'[k] = cache[k]
                 \/ cache'[k] = NoID /\ nevict' = nevict + 1]_vars

\* C22 amended: once a key has a cache entry, a step removes it only by
\* eviction, and replaces it only when a build of the same key that missed
\* the cache before the entry was inserted receives its own PayloadID from
\* the peer; no builder operation empties a key, and a call that starts
\* after the insert never writes the cache.
C22_ReplacedOnlyByRacingBuild ==
    [][\A k \in Keys :
          (cache[k] # NoID /\ cache'[k] # cache[k])
              => \/ cache'[k] = NoID /\ nevict' = nevict + 1 /\ fr' = fr
                 \/ /\ cache'[k] \in PayloadIDs
                    /\ nevict' = nevict
                    /\ \E p \in Procs :
                          /\ pc[p] = "rpc"
                          /\ fr[p].op \in {"RequestPayloadAsync", "RequestPayloadSync"}
                          /\ KeyOf(fr[p]) = k
                          /\ fr[p].hit = NoID
                          /\ InFlight(p).m = FCU /\ InFlight(p).attrs
                          /\ pc'[p] # "rpc"
                          /\ cache'[k] \in granted'[k] ]_vars

\* C22 witness: a key whose entry has held both PayloadIDs since its last
\* eviction.
C22_Witness ==
    \E k \in Keys : cache[k] # NoID /\ issued[k] = PayloadIDs

\* C23 as stated: the statements of ExchangeCapabilities that read and write
\* s.capabilities and s.statusErr run under the lock, so no two goroutines
\* are in them at once and the process never dies of a concurrent map write.
C23_CellsAccessedUnderLock ==
    /\ \A p, q \in Procs : (pc[p] = "store" /\ pc[q] = "store") => p = q
    /\ \A p \in Procs : pc[p] # "fatal"

\* C24: ExchangeCapabilities returns an error only when the transport call
\* failed; once the transport call has succeeded it returns the peer's list
\* with a nil error, whatever capabilities the list lacks.
C24_GapIsNotAnError ==
    [][\A p \in Procs :
          fr[p].op = "ExchangeCapabilities"
              => /\ (pc[p] = "rpc" /\ pc'[p] = "idle")
                        => /\ ret'.cause \in {"rpcerr", "neterr", "cancel"}
                           /\ ret'.err # Nil
                 /\ (pc[p] = "rpc" /\ ret' = NoRet /\ pc'[p] # "rpc")
                        => pc'[p] = "store"
                 /\ (pc[p] = "store" /\ pc'[p] = "idle")
                        => /\ ret'.err = Nil
                           /\ ret'.caps = fr[p].result]_vars

\* C24 witness: the peer's list is empty, every capability of this node is
\* missing, and the call returns the empty list without error.
C24_Witness ==
    /\ ret.op = "ExchangeCapabilities"
    /\ ret.cause = "resp"
    /\ ret.caps = {}
    /\ capabilities = {}
    /\ ret.err = Nil

FailureClass(r) ==
    CASE r.cause = "timeout" -> "deadline"
      [] r.cause = "rpcerr" -> "rpc"
      [] r.cause = "resp" /\ r.status = "none" -> "invalid response"
      [] OTHER -> "unclassified"

\* The counter of the metrics sink that belongs to a class of failure of an
\* operation.
ClassCounter(op, class) ==
    IF class = "deadline" THEN TimeoutCounter(op) ELSE class

\* C26 as stated: every failed call of an engine client operation increments
\* the counter of its class of failure.
C26_EveryFailureCounted ==
    (ret.op \in EngineOps /\ ret.err # Nil)
        => metric = ClassCounter(ret.op, FailureClass(ret))

\* C27 as stated: NewPayloadAttributes returns attributes without error only
\* if the timestamp is non-zero, prev-randao is not the zero value and the
\* withdrawal list is present exactly when the fork version is at or after
\* Capella; for every other input it returns an error and no attributes.
C27_AttributesValid ==
    output # NoOutput
        => LET ok == /\ input.timestamp # 0
                     /\ input.prevRandao # ZeroBytes32
                     /\ (input.withdrawals # NilWithdrawals
                            <=> input.forkVersion >= Capella)
           IN IF ok THEN output[1].err = Nil /\ ~output[1].p.nil
              ELSE output[1].err # Nil /\ output[1].p.nil

\* What GetPayload returned to the call whose return r records the outcome
\* of its get-payload request.
EngineGetPayload(r) ==
    LET o == [Outcome0 EXCEPT !.kind = r.cause, !.nil = r.renv.nil,
                              !.blobs = r.renv.blobs, !.fee = r.renv.fee,
                              !.pid = r.renv.pid]
    IN GetPayloadReturn(r.ver, TransportError(o), o)

IsPowerOfTwo(u) == Cardinality(u) = 1
Le(u, v) == ~Gt(u, v)

C30_TriggerWaitRedeem ==
    [][\A p \in Procs :
          fr'[p].op = "RequestPayloadSync"
              => /\ (pc[p] # "settle" /\ pc'[p] = "settle")
                        => /\ fr'[p].pid # NoID
                           /\ GetP \notin Methods(fr'[p].sent)
                           /\ IF fr'[p].hit # NoID
                              THEN /\ fr'[p].pid = cache[KeyOf(fr'[p])]
                                   /\ fr'[p].sent = <<>>
                              ELSE /\ Methods(fr'[p].sent) = {FCU}
                                   /\ pc[p] = "rpc"
                                   /\ fr'[p].pid = cache'[KeyOf(fr'[p])]
                                   /\ fr'[p].pid \in granted'[KeyOf(fr'[p])]
                 /\ Count(fr'[p].sent, GetP) > Count(fr[p].sent, GetP)
                        => /\ pc[p] = "settle"
                           /\ ~cancelled[p]
                           /\ fr'[p].settle = "elapsed"
                           /\ fr[p].pid # NoID
                           /\ InFlight(p)'.pid = fr[p].pid]_vars

\* C30 witness: a call answered from the cache has waited and its
\* get-payload request for the cached PayloadID is in flight.
C30_Witness ==
    \E p \in Procs :
        /\ fr[p].op = "RequestPayloadSync"
        /\ pc[p] = "rpc"
        /\ fr[p].hit # NoID
        /\ fr[p].settle = "elapsed"
        /\ InFlight(p).m = GetP
        /\ InFlight(p).pid = fr[p].hit

\* The goroutine p takes the step.
Steps(p) == pc'[p] # pc[p] \/ fr'[p] # fr[p]

C32_StatusErrOnlyByExchange ==
    [][/\ (statusErr' # statusErr \/ capabilities' # capabilities)
            => \E p \in Procs : Steps(p) /\ fr[p].op = "ExchangeCapabilities"
       /\ \A p \in Procs :
             /\ (Steps(p) /\ {fr[p].op, fr'[p].op} \cap Dispatched # {})
                   => (statusErr' = statusErr /\ capabilities' = capabilities)
             /\ (ret'.proc = p /\ ret'.op = "ExchangeCapabilities")
                   => IF ret'.err # Nil
                      THEN statusErr' = ret'.err /\ capabilities' = capabilities
                      ELSE statusErr' = Nil]_vars

\* C32 witness: a failed ExchangeCapabilities has left its error in the cell
\* next to capabilities an earlier call stored.
C32_Witness ==
    /\ ret.op = "ExchangeCapabilities"
    /\ ret.err # Nil
    /\ statusErr = ret.err
    /\ capabilities # {}

\* C34: a get-payload the transport answers with no error and no envelope
\* makes the engine client return ErrNilExecutionPayloadEnvelope, which
\* RetrievePayload returns in turn; and RetrievePayload never returns a nil
\* envelope with a nil error: when GetPayload hands it no envelope it
\* returns an error.
C34_NilEnvelopeIsError ==
    ret.op = "RetrievePayload"
        => /\ (ret.sent # <<>> /\ ret.cause = "resp" /\ ret.renv.nil)
                 => /\ EngineGetPayload(ret).err = ErrNilExecutionPayloadEnvelope
                    /\ ret.err = ErrNilExecutionPayloadEnvelope
           /\ (ret.sent # <<>> /\ EngineGetPayload(ret).env.nil) => ret.err # Nil
           /\ ret.env.nil => ret.err # Nil
           /\ ret.err = Nil => ~ret.env.nil

\* C34 witness: the peer answered the get-payload of RetrievePayload with a
\* nil result.
C34_Witness ==
    /\ ret.op = "RetrievePayload"
    /\ Len(ret.sent) = 1
    /\ ret.cause = "resp"
    /\ ret.renv.nil
    /\ ret.env.nil
    /\ ret.err = ErrNilExecutionPayloadEnvelope

\* C35 as stated: RequestPayloadSync and RetrievePayload never return a
\* non-nil envelope together with a non-nil error.
C35_EnvelopeXorError ==
    ret.op \in {"RequestPayloadSync", "RetrievePayload"}
        => ~(~ret.env.nil /\ ret.err # Nil)

\* The goroutine p is in the redeem phase of its call: in RetrievePayload,
\* or in RequestPayloadSync from the settle wait on.
Redeeming(p) ==
    \/ fr[p].op = "RetrievePayload"
    \/ /\ fr[p].op = "RequestPayloadSync"
       /\ \/ pc[p] = "settle"
          \/ pc[p] = "rpc" /\ fr[p].sent[Len(fr[p].sent)].m = GetP

\* C36: every step of RetrievePayload and of the redeem phase of
\* RequestPayloadSync leaves the payload cache as it is, whatever the
\* outcome; a RetrievePayload entered while the cache holds a PayloadID for
\* its key sends its get-payload with that PayloadID, and an enabled
\* RequestPayloadAsync entered then returns that PayloadID without a
\* request.
C36_RedeemKeepsEntry ==
    [][\A p \in Procs :
          /\ (Steps(p) /\ (Redeeming(p) \/ fr'[p].op = "RetrievePayload"
                              \/ (ret'.proc = p /\ ret'.op = "RetrievePayload")))
                => cache' = cache
          /\ (Steps(p) /\ pc[p] = "idle" /\ fr'[p].op = "RetrievePayload"
                /\ cache[KeyOf(fr'[p])] # NoID /\ fr'[p].sent # <<>>)
                => fr'[p].sent[1].pid = cache[KeyOf(fr'[p])]
          /\ (Steps(p) /\ pc[p] = "idle" /\ ret'.proc = p
                /\ ret'.op = "RequestPayloadAsync" /\ enabled
                /\ cache[<<ret'.slot, ret'.root>>] # NoID)
                => /\ ret'.id = cache[<<ret'.slot, ret'.root>>]
                   /\ ret'.sent = <<>>
                   /\ ret'.err = Nil]_vars

\* C36 witness: RetrievePayload has delivered the envelope of the PayloadID
\* the cache still holds for its key.
C36_Witness ==
    /\ ret.op = "RetrievePayload"
    /\ ret.err = Nil
    /\ ~ret.env.nil
    /\ cache[<<ret.slot, ret.root>>] = ret.sent[1].pid
    /\ cache[<<ret.slot, ret.root>>] # NoID

\* ------------------------------------------------- the per-call deadline
\* The clock stops at MaxTime ticks.
MaxTime == 6

\* s.cfg.RPCTimeout and pb.cfg.PayloadTimeout, in ticks.
RPCTimeoutTicks == 2
PayloadTimeoutTicks == 1

\* ctx.Err() of a ctx whose own deadline has passed.
DeadlineExceeded == "context deadline exceeded"

\* The caller's ctx: without a deadline, or with one at tick `at`.
CallerContexts ==
    {[has |-> FALSE, at |-> 0]} \cup {[has |-> TRUE, at |-> t] : t \in 1..MaxTime}

\* One RPC budget for all the calls of a caller, counted from tick 0.
WithTimeoutCause_Global(parent, start) ==
    IF parent.has /\ parent.at < RPCTimeoutTicks THEN parent.at ELSE RPCTimeoutTicks

\* context.WithTimeoutCause(ctx, s.cfg.RPCTimeout, ErrEngineAPITimeout)
\* called at tick start: the deadline of the derived context is
\* start + RPCTimeoutTicks, unless the parent's is earlier.
WithTimeoutCause(parent, start) ==
    IF parent.has /\ parent.at < start + RPCTimeoutTicks
    THEN parent.at
    ELSE start + RPCTimeoutTicks

\* What a call under d returns when d's deadline passes: the cause of the
\* derived context when its own timer fired, the parent's error when the
\* parent's deadline fired; either when both fire on the same tick.
DeadlineErrors(parent, d) ==
    (IF d.deadline = d.start + RPCTimeoutTicks THEN {ErrEngineAPITimeout} ELSE {})
        \cup (IF parent.has /\ parent.at = d.deadline
              THEN {DeadlineExceeded} ELSE {})

\* The end of the call under dctx at the present tick with error err.
Ended(err) ==
    Returned([op |-> dctx.op, start |-> dctx.start, end |-> now,
              later |-> dctx.later, err |-> err])

InitDeadline ==
    /\ Quiescent
    /\ input \in CallerContexts
    /\ output = NoOutput
    /\ now = 0
    /\ dctx = NoCtx

\* NewPayload, ForkchoiceUpdated or GetPayload is entered: its first
\* statements derive dctx from the caller's ctx.
StartCall(op) ==
    /\ ~dctx.running
    /\ dctx' = [op |-> op, start |-> now,
                deadline |-> WithTimeoutCause(input, now), running |-> TRUE,
                later |-> dctx.op # "none"]
    /\ output' = NoOutput
    /\ UNCHANGED <<input, now>>
    /\ Idle

\* A tick passes while the transport call is out; the call does not outlive
\* the deadline of dctx.
Tick ==
    /\ dctx.running
    /\ now < dctx.deadline
    /\ now < MaxTime
    /\ now' = now + 1
    /\ UNCHANGED <<input, output, dctx>>
    /\ Idle

\* The peer answers before the deadline of dctx.
AnswerInTime ==
    /\ dctx.running
    /\ now < dctx.deadline
    /\ output' = Ended(Nil)
    /\ dctx' = [dctx EXCEPT !.running = FALSE]
    /\ UNCHANGED <<input, now>>
    /\ Idle

\* The deadline of dctx passes: the transport call returns the context's
\* error.
DeadlinePasses ==
    /\ dctx.running
    /\ now >= dctx.deadline
    /\ \E err \in DeadlineErrors(input, dctx) : output' = Ended(err)
    /\ dctx' = [dctx EXCEPT !.running = FALSE]
    /\ UNCHANGED <<input, now>>
    /\ Idle

\* The settle wait of RequestPayloadSync between its forkchoice update and
\* its get-payload: time.After(pb.cfg.PayloadTimeout) fires before ctx is
\* done.
SettleWait ==
    /\ ~dctx.running
    /\ dctx.op = "ForkchoiceUpdated"
    /\ now + PayloadTimeoutTicks <= MaxTime
    /\ input.has => now + PayloadTimeoutTicks < input.at
    /\ now' = now + PayloadTimeoutTicks
    /\ UNCHANGED <<input, output, dctx>>
    /\ Idle

NextDeadline ==
    \/ \E op \in {"NewPayload", "ForkchoiceUpdated", "GetPayload"} : StartCall(op)
    \/ Tick
    \/ AnswerInTime
    \/ DeadlinePasses
    \/ SettleWait

SpecDeadline == InitDeadline /\ [][NextDeadline]_vars

\* The earliest and the latest tick of a set.
Earliest(S) == CHOOSE x \in S : \A y \in S : x <= y
Latest(S) == CHOOSE x \in S : \A y \in S : y <= x

\* C33: every engine call runs under a deadline computed at its own start,
\* the earlier of the caller's deadline and start + RPCTimeoutTicks, whatever
\* time earlier calls and the settle wait have taken: a call that is out
\* has not passed that deadline; a call that ends with ErrEngineAPITimeout
\* ends exactly RPCTimeoutTicks after its start; a call that ends with the
\* caller's deadline error ends at the caller's deadline or, entered after
\* it, at once; a call that is answered ends less than RPCTimeoutTicks after its
\* start.
C33_BudgetFromCallStart ==
    /\ dctx.running
          => /\ dctx.deadline = Earliest({dctx.start + RPCTimeoutTicks}
                                       \cup (IF input.has THEN {input.at} ELSE {}))
             /\ now <= Latest({dctx.deadline, dctx.start})
    /\ output # NoOutput
          => LET r == output[1]
             IN /\ r.err = ErrEngineAPITimeout => r.end = r.start + RPCTimeoutTicks
                /\ r.err = DeadlineExceeded
                      => input.has /\ r.end = Latest({input.at, r.start})
                /\ r.err = Nil
                      => /\ r.end < r.start + RPCTimeoutTicks
                         /\ input.has => r.end < input.at

\* C33 witness: a get-payload entered after a forkchoice update and the
\* settle wait have used up more than RPCTimeoutTicks still ran for RPCTimeoutTicks
\* before it timed out.
C33_Witness ==
    /\ output # NoOutput
    /\ output[1].op = "GetPayload"
    /\ output[1].later
    /\ output[1].start > RPCTimeoutTicks
    /\ output[1].err = ErrEngineAPITimeout
    /\ output[1].end = output[1].start + RPCTimeoutTicks

\* --------------------------------------------------------- package hex
\* Text is a sequence of characters, a byte slice a sequence of 0..255.
\* The bodies of the texts decoded have at most MaxDigits characters, the
\* slices encoded at most MaxBytes bytes.
MaxDigits == 4
MaxBytes == 3

\* The prefix of hex text and the number of characters per byte.
prefix == <<"0", "x">>
prefixLen == Len(prefix)
encDecRatio == 2

ErrMissingPrefix == "hex string without 0x prefix"
ErrOddLength == "hex string of odd length"
ErrInvalidString == "invalid hex string"
ErrWrongLength == "hex string has length %d, want %d for %s"
HexErrLength == "encoding/hex: odd length hex string"
InvalidByteError == "encoding/hex: invalid byte"

\* encoding/hex: the digit table of Encode and the reverse table of Decode,
\* which gives 0xff for every byte that is no hex digit.
hextable ==
    <<"0", "1", "2", "3", "4", "5", "6", "7", "8", "9", "a", "b", "c", "d",
      "e", "f">>
UpperDigits == <<"A", "B", "C", "D", "E", "F">>
reverseHexTable(c) ==
    IF \E i \in 1..16 : hextable[i] = c
    THEN (CHOOSE i \in 1..16 : hextable[i] = c) - 1
    ELSE IF \E i \in 1..6 : UpperDigits[i] = c
    THEN (CHOOSE i \in 1..6 : UpperDigits[i] = c) + 9
    ELSE 255

\* hex.Encode(dst, src): two digits of hextable per byte, written to dst
\* from its first position.
RECURSIVE hexEncode(_, _, _)
hexEncode(dst, src, i) ==
    IF i > Len(src) THEN dst
    ELSE hexEncode([dst EXCEPT ![2 * i - 1] = hextable[(src[i] \div 16) + 1],
                               ![2 * i] = hextable[(src[i] % 16) + 1]],
                   src, i + 1)

\* hex.Decode(dst, src) from pair i on: each pair of digits is written to
\* dst as one byte; the first byte that is no digit ends the decoding with
\* InvalidByteError, the bytes before it written; a src of odd length
\* gives ErrLength after all its pairs have been written.
RECURSIVE hexDecode(_, _, _)
hexDecode(dst, src, i) ==
    IF 2 * i <= Len(src)
    THEN LET a == reverseHexTable(src[2 * i - 1])
             b == reverseHexTable(src[2 * i])
         IN IF a > 15 \/ b > 15 THEN [dst |-> dst, err |-> InvalidByteError]
            ELSE hexDecode([dst EXCEPT ![i] = a * 16 + b], src, i + 1)
    ELSE IF Len(src) % 2 = 1
    THEN IF reverseHexTable(src[Len(src)]) > 15
         THEN [dst |-> dst, err |-> InvalidByteError]
         ELSE [dst |-> dst, err |-> HexErrLength]
    ELSE [dst |-> dst, err |-> Nil]

\* decodeNibble: the value of a hex digit of either case, badNibble for
\* every other character.
badNibble == 16
decodeNibble(c) ==
    CASE c \in {"0", "1", "2", "3", "4", "5", "6", "7", "8", "9"} ->
            CHOOSE v \in 0..9 : hextable[v + 1] = c
      [] c \in {"a", "b", "c", "d", "e", "f"} ->
            CHOOSE v \in 10..15 : hextable[v + 1] = c
      [] c \in {"A", "B", "C", "D", "E", "F"} ->
            CHOOSE v \in 10..15 : UpperDigits[v - 9] = c
      [] OTHER -> badNibble

\* formatAndValidateText: the text without its prefix; an error for a text
\* that lacks the prefix or has an odd number of digits. The empty text
\* has no digits.
formatAndValidateText(text) ==
    IF Len(text) = 0 THEN [raw |-> <<>>, err |-> Nil]
    ELSE IF ~(Len(text) >= prefixLen /\ SubSeq(text, 1, prefixLen) = prefix)
    THEN [raw |-> <<>>, err |-> ErrMissingPrefix]
    ELSE IF (Len(text) - prefixLen) % 2 # 0
    THEN [raw |-> <<>>, err |-> ErrOddLength]
    ELSE [raw |-> SubSeq(text, prefixLen + 1, Len(text)), err |-> Nil]

\* EncodeBytes that does not copy the prefix into the result.
EncodeBytes_NoPrefix(b) ==
    LET result == [i \in 1..(Len(b) * 2 + prefixLen) |-> "nul"]
    IN [result |-> SubSeq(result, 1, prefixLen)
                     \o hexEncode(SubSeq(result, prefixLen + 1, Len(result)), b, 1),
        err |-> Nil]

\* EncodeBytes: result := make([]byte, len(b)*2+prefixLen);
\* copy(result, prefix); hex.Encode(result[prefixLen:], b).
EncodeBytes(b) ==
    LET result == [i \in 1..(Len(b) * 2 + prefixLen) |-> "nul"]
        copied == [i \in 1..Len(result) |->
                      IF i <= Len(prefix) THEN prefix[i] ELSE result[i]]
    IN [result |-> SubSeq(copied, 1, prefixLen)
                     \o hexEncode(SubSeq(copied, prefixLen + 1, Len(copied)), b, 1),
        err |-> Nil]

\* UnmarshalByteText: the bytes of a prefixed hex text, the empty slice on
\* every error.
UnmarshalByteText(text) ==
    LET f == formatAndValidateText(text)
        dec == [i \in 1..(Len(f.raw) \div encDecRatio) |-> 0]
        d == hexDecode(dec, f.raw, 1)
    IN IF f.err # Nil THEN [dec |-> <<>>, err |-> f.err]
       ELSE IF d.err # Nil THEN [dec |-> <<>>, err |-> d.err]
       ELSE [dec |-> d.dst, err |-> Nil]

\* DecodeFixedText without the loop that verifies the digits beforehand.
DecodeFixedText_NoPreVerify(text, out) ==
    LET f == formatAndValidateText(text)
    IN IF f.err # Nil THEN [out |-> out, err |-> f.err]
       ELSE IF Len(f.raw) \div encDecRatio # Len(out)
       THEN [out |-> out, err |-> ErrWrongLength]
       ELSE LET d == hexDecode(out, f.raw, 1)
            IN [out |-> d.dst, err |-> d.err]

\* DecodeFixedText(typename, input, out): out as the call leaves it, and
\* the error returned.
DecodeFixedText(text, out) ==
    LET f == formatAndValidateText(text)
    IN IF f.err # Nil THEN [out |-> out, err |-> f.err]
       ELSE IF Len(f.raw) \div encDecRatio # Len(out)
       THEN [out |-> out, err |-> ErrWrongLength]
       ELSE IF \E i \in 1..Len(f.raw) : decodeNibble(f.raw[i]) = badNibble
       THEN [out |-> out, err |-> ErrInvalidString]
       ELSE LET d == hexDecode(out, f.raw, 1)
            IN [out |-> d.dst, err |-> d.err]

\* The sequences over S of at most n elements.
SeqsUpTo(S, n) == UNION {[1..k -> S] : k \in 0..n}

\* The texts decoded: with the prefix, without it and with its characters
\* swapped; digits of both cases and a character that is no digit.
FixedTextInputs ==
    {[fn |-> "DecodeFixedText", text |-> pre \o body, out |-> out] :
        pre \in {<<>>, prefix, <<"x", "0">>},
        body \in SeqsUpTo({"0", "a", "F", "g"}, MaxDigits),
        out \in {[i \in 1..n |-> 90 + i] : n \in 0..2}}

\* The slices encoded.
EncodeInputs ==
    {[fn |-> "EncodeBytes", b |-> b] : b \in SeqsUpTo({0, 1, 171, 255}, MaxBytes)}

InitHex ==
    /\ Quiescent
    /\ input \in FixedTextInputs \cup EncodeInputs
    /\ output = NoOutput
    /\ now = 0
    /\ dctx = NoCtx

CallDecodeFixedText ==
    /\ input.fn = "DecodeFixedText"
    /\ output = NoOutput
    /\ output' = Returned(DecodeFixedText(input.text, input.out))
    /\ UNCHANGED <<input, now, dctx>>
    /\ Idle

CallEncodeBytes ==
    /\ input.fn = "EncodeBytes"
    /\ output = NoOutput
    /\ output' = Returned(EncodeBytes(input.b))
    /\ UNCHANGED <<input, now, dctx>>
    /\ Idle

\* The text EncodeBytes returned is decoded.
CallUnmarshalByteText ==
    /\ input.fn = "EncodeBytes"
    /\ Len(output) = 1
    /\ output' = Append(output, UnmarshalByteText(output[1].result))
    /\ UNCHANGED <<input, now, dctx>>
    /\ Idle

NextHex ==
    \/ CallDecodeFixedText
    \/ CallEncodeBytes
    \/ CallUnmarshalByteText

SpecHex == InitHex /\ [][NextHex]_vars

\* The value of a digit, and the bytes a sequence of digit pairs stands for.
DigitValue(c) ==
    CASE c = "0" -> 0 [] c = "1" -> 1 [] c = "2" -> 2 [] c = "3" -> 3
      [] c = "4" -> 4 [] c = "5" -> 5 [] c = "6" -> 6 [] c = "7" -> 7
      [] c = "8" -> 8 [] c = "9" -> 9 [] c \in {"a", "A"} -> 10
      [] c \in {"b", "B"} -> 11 [] c \in {"c", "C"} -> 12
      [] c \in {"d", "D"} -> 13 [] c \in {"e", "E"} -> 14
      [] c \in {"f", "F"} -> 15
IsDigit(c) ==
    c \in {"0", "1", "2", "3", "4", "5", "6", "7", "8", "9", "a", "b", "c", "d",
           "e", "f", "A", "B", "C", "D", "E", "F"}
IsLowerDigit(c) ==
    c \in {"0", "1", "2", "3", "4", "5", "6", "7", "8", "9", "a", "b", "c", "d",
           "e", "f"}
BytesOf(digits) ==
    [i \in 1..(Len(digits) \div 2) |->
        16 * DigitValue(digits[2 * i - 1]) + DigitValue(digits[2 * i])]

\* The text is the prefix followed by two digits for each byte of out.
WellFormedFor(text, out) ==
    /\ Len(text) = prefixLen + 2 * Len(out)
    /\ SubSeq(text, 1, prefixLen) = prefix
    /\ \A i \in (prefixLen + 1)..Len(text) : IsDigit(text[i])

\* C37: DecodeFixedText returns nil exactly for a text that is the prefix
\* followed by two hex digits per byte of out (or is empty, for an empty
\* out), and then out holds the bytes the digits stand for; for every
\* other text (no prefix, an odd number of digits, a number of digits that
\* is not twice len(out), a character that is no hex digit) it returns an
\* error and out holds what it held before the call.
C37_ErrorLeavesOut ==
    (input.fn = "DecodeFixedText" /\ output # NoOutput)
        => LET r == output[1]
               ok == \/ WellFormedFor(input.text, input.out)
                     \/ input.text = <<>> /\ input.out = <<>>
           IN /\ r.err = Nil <=> ok
              /\ r.err # Nil => r.out = input.out
              /\ r.err = Nil
                    => r.out = BytesOf(SubSeq(input.text, prefixLen + 1,
                                              Len(input.text)))

\* C37 witness: a text of the right length whose first byte is well formed
\* and whose second has a character that is no digit is refused, out as it
\* was.
C37_Witness ==
    /\ output # NoOutput
    /\ input.fn = "DecodeFixedText"
    /\ input.text = <<"0", "x", "a", "F", "0", "g">>
    /\ Len(input.out) = 2
    /\ output[1].err = ErrInvalidString
    /\ output[1].out = input.out

\* C38: EncodeBytes(b) returns, without error, the prefix followed by
\* exactly 2*len(b) lower-case hex digits, the bare prefix for the empty
\* slice; decoding that text returns b without error.
C38_EncodeRoundTrips ==
    (input.fn = "EncodeBytes" /\ output # NoOutput)
        => /\ output[1].err = Nil
           /\ Len(output[1].result) = 2 + 2 * Len(input.b)
           /\ SubSeq(output[1].result, 1, 2) = <<"0", "x">>
           /\ \A i \in 3..Len(output[1].result) : IsLowerDigit(output[1].result[i])
           /\ BytesOf(SubSeq(output[1].result, 3, Len(output[1].result))) = input.b
           /\ input.b = <<>> => output[1].result = <<"0", "x">>
           /\ Len(output) = 2
                 => /\ output[2].err = Nil
                    /\ output[2].dec = input.b

\* C38 witness: the slice ab 00 ff is encoded as 0xab00ff and decoded back.
C38_Witness ==
    /\ input.fn = "EncodeBytes"
    /\ input.b = <<171, 0, 255>>
    /\ Len(output) = 2
    /\ output[1].result = <<"0", "x", "a", "b", "0", "0", "f", "f">>
    /\ output[2].dec = input.b

====
